---- MODULE Spec2Model ----
(***************************************************************************)
(* Model of packages/desktop/src-tauri/src/opencode_config.rs: resolution  *)
(* and mutation of agent / command configuration that is stored            *)
(* redundantly in Markdown files (project and user scope) and in three     *)
(* JSON layers (override, project, user).                                  *)
(*                                                                         *)
(* The state is the file store the module works on.  Every public          *)
(* function of the module is one action that runs the whole function       *)
(* against the store; `last` records the call and its result and `pre`     *)
(* the store the call started from.  `hist` records, for direct calls of   *)
(* write_config_at, what each layer file held when a call found it.        *)
(* `local` holds the local variables of update calls that run step by      *)
(* step, each file operation being one step.                               *)
(*                                                                         *)
(* Paths are abstract: the three layer files and the Markdown files live   *)
(* at pairwise distinct paths (OPENCODE_CONFIG does not name the user or   *)
(* project opencode.json).                                                 *)
(***************************************************************************)
EXTENDS Integers, Sequences, FiniteSets, TLC

VARIABLES store, customSet, pc, last, pre, calls, hist, local

vars == <<store, customSet, pc, last, pre, calls, hist, local>>

(***************************************************************************)
(* Bounds                                                                  *)
(***************************************************************************)
MaxCalls == 1

MaxWrites == 3

MaxRepeats == 4

(***************************************************************************)
(* serde_json::Value                                                       *)
(***************************************************************************)
Null == [t |-> "null", v |-> ""]

Str(s) == [t |-> "str", v |-> s]

True == [t |-> "bool", v |-> "true"]

Obj(f) == [t |-> "obj", v |-> f]

\* Value::Array
Arr(a) == [t |-> "arr", v |-> a]

EmptyMap == [k \in {} |-> Null]

EmptyObj == Obj(EmptyMap)

\* Option::None for values and paths
None == "none"

NoValue == [t |-> "none", v |-> ""]

is_object(j) == j.t = "obj"

is_null(j) == j.t = "null"

\* Map::insert
Put(f, k, x) == [y \in DOMAIN f \cup {k} |-> IF y = k THEN x ELSE f[y]]

\* Map::remove
Del(f, k) == [y \in DOMAIN f \ {k} |-> f[y]]

\* map literals
Map1(k, x) == Put(EmptyMap, k, x)

Map2(k1, x1, k2, x2) == Put(Map1(k1, x1), k2, x2)

Map3(k1, x1, k2, x2, k3, x3) == Put(Map2(k1, x1, k2, x2), k3, x3)

\* Value::get(key): None on a non-object or a missing key
get(j, k) == IF is_object(j) /\ k \in DOMAIN j.v THEN j.v[k] ELSE NoValue

\* Option<&Value>::and_then(as_object): the map, or None
as_object(j) == IF is_object(j) THEN j ELSE NoValue

(***************************************************************************)
(* Entity kinds, scopes, layers                                            *)
(***************************************************************************)
Kinds == {"agent", "command"}

Scopes == {"project", "user"}

Layers == {"custom", "project", "user"}

Names == {"a", "b"}

\* section key in the JSON tree: "agent" / "command"
SectionKey(kind) == kind

\* the body-bearing field: "prompt" for agents, "template" for commands
BodyField(kind) == IF kind = "agent" THEN "prompt" ELSE "template"

(***************************************************************************)
(* Files                                                                   *)
(***************************************************************************)
\* a JSON layer file: absent, blank (empty / whitespace / comments only),
\* unparsable, or the text of a JSON value
NoFile == [k |-> "absent", v |-> Null]

BlankFile == [k |-> "blank", v |-> Null]

BadFile == [k |-> "bad", v |-> Null]

JsonFile(tree) == [k |-> "json", v |-> tree]

\* a Markdown file: frontmatter block and the text after it
NoMd == [k |-> "absent", fm |-> EmptyMap, body |-> ""]

MdFile(fm, body) == [k |-> "md", fm |-> fm, body |-> body]

\* a plain text file (prompt file)
NoText == [k |-> "absent", v |-> ""]

TextFile(s) == [k |-> "text", v |-> s]

exists(f) == f.k # "absent"

\* str::trim on the strings of the model
Trim(s) == IF s = " b1 " THEN "b1" ELSE IF s = " " THEN "" ELSE s

(***************************************************************************)
(* Prompt file references                                                  *)
(***************************************************************************)
\* capture group 1 of PROMPT_FILE_PATTERN, (?i)^\{file:(.+)\}$, on the
\* strings of the model; "" when the pattern does not match
PROMPT_FILE_PATTERN(s) ==
    CASE s = "{file:p.txt}" -> "p.txt"
      [] s = "{FILE:./p.txt}" -> "./p.txt"
      [] s = "{file: }" -> " "
      [] OTHER -> ""

is_prompt_file_reference(value) == PROMPT_FILE_PATTERN(Trim(value)) # ""

\* the path a target resolves to: a leading "./" is stripped, a relative
\* target is joined to the configuration directory
JoinConfigDir(target) ==
    CASE target = "p.txt" -> "cfgdir/p.txt"
      [] target = "./p.txt" -> "cfgdir/p.txt"
      [] OTHER -> "cfgdir/other"

resolve_prompt_file_path(reference) ==
    LET target == Trim(PROMPT_FILE_PATTERN(Trim(reference)))
    IN  IF target = "" THEN None ELSE JoinConfigDir(target)

PromptPaths == {"cfgdir/p.txt", "cfgdir/other"}

write_prompt_file(st, file_path, content) ==
    [st EXCEPT !.prompt[file_path] = TextFile(content)]

(***************************************************************************)
(* Layer loader                                                            *)
(***************************************************************************)
\* as read_config_file, but content that fails to parse is taken as empty
read_config_file_lenient(f) ==
    IF f.k = "json" THEN [ok |-> TRUE, value |-> f.v]
    ELSE [ok |-> TRUE, value |-> EmptyObj]

\* Result<Value>
read_config_file(f) ==
    IF ~exists(f) THEN [ok |-> TRUE, value |-> EmptyObj]
    ELSE IF f.k = "blank" THEN [ok |-> TRUE, value |-> EmptyObj]
    ELSE IF f.k = "bad" THEN [ok |-> FALSE, value |-> EmptyObj]
    ELSE [ok |-> TRUE, value |-> f.v]

\* ConfigPaths: the project path is present iff a working directory is
\* supplied, the custom path iff OPENCODE_CONFIG is set
get_config_paths(cs, wd) ==
    [user |-> "user",
     project |-> IF wd THEN "project" ELSE None,
     custom |-> IF cs THEN "custom" ELSE None]

\* as merge_values, but the merged map starts empty instead of as a copy of
\* the base map
merge_values_overlay_keys(base, overlay) ==
    IF is_object(base) /\ is_object(overlay)
    THEN Obj([k \in DOMAIN overlay.v |-> overlay.v[k]])
    ELSE overlay

\* as merge_values, but a key of the overlay replaces the base's value
\* without recursion
merge_values_shallow(base, overlay) ==
    IF is_object(base) /\ is_object(overlay)
    THEN Obj([k \in DOMAIN base.v \cup DOMAIN overlay.v |->
                 IF k \in DOMAIN overlay.v THEN overlay.v[k] ELSE base.v[k]])
    ELSE overlay

\* deep merge: two maps merge key by key, any other pair gives the overlay
RECURSIVE merge_values(_, _)
merge_values(base, overlay) ==
    IF is_object(base) /\ is_object(overlay)
    THEN Obj([k \in DOMAIN base.v \cup DOMAIN overlay.v |->
                 IF k \in DOMAIN overlay.v
                 THEN merge_values(IF k \in DOMAIN base.v THEN base.v[k]
                                   ELSE Null,
                                   overlay.v[k])
                 ELSE base.v[k]])
    ELSE overlay

read_config_layers(st, cs, wd) ==
    LET paths == get_config_paths(cs, wd)
        user == read_config_file(st.cfg["user"])
        project == IF paths.project # None
                   THEN read_config_file(st.cfg[paths.project])
                   ELSE [ok |-> TRUE, value |-> EmptyObj]
        custom == IF paths.custom # None
                  THEN read_config_file(st.cfg[paths.custom])
                  ELSE [ok |-> TRUE, value |-> EmptyObj]
    IN  [ok |-> user.ok /\ project.ok /\ custom.ok,
         user |-> user.value,
         project |-> project.value,
         custom |-> custom.value,
         merged |-> merge_values(merge_values(user.value, project.value),
                                 custom.value),
         paths |-> paths]

(***************************************************************************)
(* Entity source resolver                                                  *)
(***************************************************************************)
NoEntry == [exists |-> FALSE, path |-> None, section |-> NoValue]

FoundEntry(path, value) == [exists |-> TRUE, path |-> path, section |-> value]

\* layers.<layer>.get(section_key).and_then(as_object) ... section.get(name)
LayerEntry(tree, section_key, entry_name) ==
    get(as_object(get(tree, section_key)), entry_name)

\* as get_json_entry_source, but the project layer is scanned before the
\* override layer
get_json_entry_source_project_first(layers, section_key, entry_name) ==
    IF /\ layers.paths.project # None
       /\ LayerEntry(layers.project, section_key, entry_name) # NoValue
    THEN FoundEntry(layers.paths.project,
                    LayerEntry(layers.project, section_key, entry_name))
    ELSE IF /\ layers.paths.custom # None
            /\ LayerEntry(layers.custom, section_key, entry_name) # NoValue
    THEN FoundEntry(layers.paths.custom,
                    LayerEntry(layers.custom, section_key, entry_name))
    ELSE IF LayerEntry(layers.user, section_key, entry_name) # NoValue
    THEN FoundEntry(layers.paths.user,
                    LayerEntry(layers.user, section_key, entry_name))
    ELSE NoEntry

\* as get_json_entry_source, but the user layer is scanned first
get_json_entry_source_user_first(layers, section_key, entry_name) ==
    IF LayerEntry(layers.user, section_key, entry_name) # NoValue
    THEN FoundEntry(layers.paths.user,
                    LayerEntry(layers.user, section_key, entry_name))
    ELSE IF /\ layers.paths.custom # None
            /\ LayerEntry(layers.custom, section_key, entry_name) # NoValue
    THEN FoundEntry(layers.paths.custom,
                    LayerEntry(layers.custom, section_key, entry_name))
    ELSE IF /\ layers.paths.project # None
            /\ LayerEntry(layers.project, section_key, entry_name) # NoValue
    THEN FoundEntry(layers.paths.project,
                    LayerEntry(layers.project, section_key, entry_name))
    ELSE NoEntry

get_json_entry_source(layers, section_key, entry_name) ==
    IF /\ layers.paths.custom # None
       /\ LayerEntry(layers.custom, section_key, entry_name) # NoValue
    THEN FoundEntry(layers.paths.custom,
                    LayerEntry(layers.custom, section_key, entry_name))
    ELSE IF /\ layers.paths.project # None
            /\ LayerEntry(layers.project, section_key, entry_name) # NoValue
    THEN FoundEntry(layers.paths.project,
                    LayerEntry(layers.project, section_key, entry_name))
    ELSE IF LayerEntry(layers.user, section_key, entry_name) # NoValue
    THEN FoundEntry(layers.paths.user,
                    LayerEntry(layers.user, section_key, entry_name))
    ELSE NoEntry

\* as get_json_write_target, but a preference for the user scope is
\* honoured when no override layer is configured
get_json_write_target_honor_user(layers, preferred_scope) ==
    IF layers.paths.custom # None THEN layers.paths.custom
    ELSE IF preferred_scope = "user" THEN layers.paths.user
    ELSE IF layers.paths.project # None THEN layers.paths.project
    ELSE layers.paths.user

get_json_write_target(layers, preferred_scope) ==
    IF layers.paths.custom # None THEN layers.paths.custom
    ELSE IF preferred_scope = "project" /\ layers.paths.project # None
    THEN layers.paths.project
    ELSE IF layers.paths.project # None THEN layers.paths.project
    ELSE layers.paths.user

\* as get_default_json_path, but always the user layer's path
get_default_json_path_user(layers) ==
    layers.paths.user

get_default_json_path(layers) ==
    IF layers.paths.custom # None THEN layers.paths.custom
    ELSE IF layers.paths.project # None THEN layers.paths.project
    ELSE layers.paths.user

\* which of the three in-memory trees a path selects ("custom",
\* "project" or "user")
get_config_for_path(layers, target_path) ==
    IF layers.paths.custom # None /\ layers.paths.custom = target_path
    THEN "custom"
    ELSE IF layers.paths.project # None /\ layers.paths.project = target_path
    THEN "project"
    ELSE "user"

\* the tree that get_config_for_path hands out
LayerTree(layers, which) ==
    CASE which = "custom" -> layers.custom
      [] which = "project" -> layers.project
      [] OTHER -> layers.user

(***************************************************************************)
(* Scope resolver                                                          *)
(***************************************************************************)
\* get_project_agent_path / get_user_agent_path (and the command twins):
\* a Markdown path is named by kind, scope and entity name
MdPath(kind, scope, name) == <<kind, scope, name>>

NoScope == [scope |-> None, path |-> <<>>]

\* as get_scope, but the user-level file is looked at first
get_scope_user_first(st, kind, name, wd) ==
    IF exists(st.md[MdPath(kind, "user", name)])
    THEN [scope |-> "user", path |-> MdPath(kind, "user", name)]
    ELSE IF wd /\ exists(st.md[MdPath(kind, "project", name)])
    THEN [scope |-> "project", path |-> MdPath(kind, "project", name)]
    ELSE NoScope

\* get_agent_scope / get_command_scope
get_scope(st, kind, name, wd) ==
    IF wd /\ exists(st.md[MdPath(kind, "project", name)])
    THEN [scope |-> "project", path |-> MdPath(kind, "project", name)]
    ELSE IF exists(st.md[MdPath(kind, "user", name)])
    THEN [scope |-> "user", path |-> MdPath(kind, "user", name)]
    ELSE NoScope

\* get_agent_write_path / get_command_write_path
get_write_path(st, kind, name, wd, requested_scope) ==
    LET existing == get_scope(st, kind, name, wd)
        scope == IF requested_scope = None THEN "user" ELSE requested_scope
    IN  IF existing.scope # None THEN existing
        ELSE IF scope = "project" /\ wd
        THEN [scope |-> "project", path |-> MdPath(kind, "project", name)]
        ELSE [scope |-> "user", path |-> MdPath(kind, "user", name)]

(***************************************************************************)
(* Persistence writer                                                      *)
(***************************************************************************)
\* as write_config_at, without the backup copy
write_config_at_no_backup(st, config, config_file) ==
    [st EXCEPT !.cfg[config_file] = JsonFile(config)]

\* as write_config_at, but the copy is taken after the write
write_config_at_backup_after(st, config, config_file) ==
    IF exists(st.cfg[config_file])
    THEN [st EXCEPT !.cfg[config_file] = JsonFile(config),
                    !.bak[config_file] = JsonFile(config)]
    ELSE [st EXCEPT !.cfg[config_file] = JsonFile(config)]

\* write_config_at: copy an existing file to <name>.openchamber.backup,
\* then write the pretty-printed value
write_config_at(st, config, config_file) ==
    LET backed == IF exists(st.cfg[config_file])
                  THEN [st EXCEPT !.bak[config_file] = st.cfg[config_file]]
                  ELSE st
    IN  [backed EXCEPT !.cfg[config_file] = JsonFile(config)]

\* MdData: frontmatter and trimmed body
parse_md_file(f) == [frontmatter |-> f.fm, body |-> Trim(f.body)]

\* frontmatter with the null-valued keys filtered out
cleaned_frontmatter(frontmatter) ==
    [k \in {x \in DOMAIN frontmatter : ~is_null(frontmatter[x])}
        |-> frontmatter[k]]

\* as write_md_file, but the null-valued keys are written too
write_md_file_keep_nulls(st, file_path, frontmatter, body) ==
    [st EXCEPT !.md[file_path] = MdFile(frontmatter, body)]

\* write_md_file: no backup is taken
write_md_file(st, file_path, frontmatter, body) ==
    [st EXCEPT !.md[file_path] = MdFile(cleaned_frontmatter(frontmatter), body)]

(***************************************************************************)
(* Field reconciler: update_agent / update_command                         *)
(***************************************************************************)
Ok == "ok"

\* The loop state of `for (field, value) in updates.iter()`:
\* acc: md_some (md_data.is_some()), frontmatter, body, existing (the JSON
\* record), md_modified, json_modified, st (the store, for prompt file
\* writes), err (the error the loop returned with, or Ok)

\* as update_null, but a field found in the frontmatter is not looked for in
\* the JSON record
update_null_md_only(acc, field, md_exists) ==
    LET in_fm == md_exists /\ acc.md_some /\ field \in DOMAIN acc.frontmatter
        in_js == ~in_fm /\ field \in DOMAIN acc.existing
    IN  [acc EXCEPT
            !.frontmatter = IF in_fm THEN Del(@, field) ELSE @,
            !.md_modified = IF in_fm THEN TRUE ELSE @,
            !.existing = IF in_js THEN Del(@, field) ELSE @,
            !.json_modified = IF in_js THEN TRUE ELSE @]

\* as update_null, but the frontmatter is looked at only when the JSON
\* record does not have the field
update_null_json_else_md(acc, field, md_exists) ==
    LET in_js == field \in DOMAIN acc.existing
        in_fm == /\ ~in_js
                 /\ md_exists /\ acc.md_some
                 /\ field \in DOMAIN acc.frontmatter
    IN  [acc EXCEPT
            !.frontmatter = IF in_fm THEN Del(@, field) ELSE @,
            !.md_modified = IF in_fm THEN TRUE ELSE @,
            !.existing = IF in_js THEN Del(@, field) ELSE @,
            !.json_modified = IF in_js THEN TRUE ELSE @]

\* as update_null, but the Markdown record is marked modified whenever there
\* is one
update_null_always_dirty(acc, field, md_exists) ==
    LET in_fm == md_exists /\ acc.md_some /\ field \in DOMAIN acc.frontmatter
        in_js == field \in DOMAIN acc.existing
    IN  [acc EXCEPT
            !.frontmatter = IF in_fm THEN Del(@, field) ELSE @,
            !.md_modified = IF acc.md_some THEN TRUE ELSE @,
            !.existing = IF in_js THEN Del(@, field) ELSE @,
            !.json_modified = IF in_js THEN TRUE ELSE @]

\* value.is_null(): remove the field from the frontmatter of an existing
\* Markdown file and from the JSON record
update_null(acc, field, md_exists) ==
    LET in_fm == md_exists /\ acc.md_some /\ field \in DOMAIN acc.frontmatter
        in_js == field \in DOMAIN acc.existing
    IN  [acc EXCEPT
            !.frontmatter = IF in_fm THEN Del(@, field) ELSE @,
            !.md_modified = IF in_fm THEN TRUE ELSE @,
            !.existing = IF in_js THEN Del(@, field) ELSE @,
            !.json_modified = IF in_js THEN TRUE ELSE @]

\* as update_body, but a body value of the JSON record is edited in place
\* before the Markdown record is looked at
update_body_json_first(acc, field, value, md_exists, creating_new_md) ==
    LET normalized_value == IF value.t = "str" THEN value.v ELSE ""
    IN  IF field \in DOMAIN acc.existing
        THEN [acc EXCEPT !.existing = Put(@, field, Str(normalized_value)),
                         !.json_modified = TRUE]
        ELSE IF acc.md_some /\ (md_exists \/ creating_new_md)
        THEN [acc EXCEPT !.body = normalized_value, !.md_modified = TRUE]
        ELSE acc

\* as update_body, but after the referenced file is written the text is
\* also stored inline in the JSON record
update_body_ref_inline(acc, field, value, md_exists, creating_new_md) ==
    LET normalized_value == IF value.t = "str" THEN value.v ELSE ""
        prompt_ref == IF field \in DOMAIN acc.existing
                         /\ acc.existing[field].t = "str"
                      THEN acc.existing[field].v ELSE None
    IN  IF md_exists \/ creating_new_md THEN
            IF acc.md_some
            THEN [acc EXCEPT !.body = normalized_value,
                             !.md_modified = TRUE]
            ELSE acc
        ELSE IF prompt_ref # None /\ is_prompt_file_reference(prompt_ref) THEN
            IF resolve_prompt_file_path(prompt_ref) # None
            THEN [acc EXCEPT !.st = write_prompt_file(@,
                      resolve_prompt_file_path(prompt_ref), normalized_value),
                             !.existing = Put(@, field, Str(normalized_value)),
                             !.json_modified = TRUE]
            ELSE [acc EXCEPT !.err = "InvalidReference"]
        ELSE [acc EXCEPT !.existing = Put(@, field, Str(normalized_value)),
                         !.json_modified = TRUE]

\* as update_body, but a reference that does not resolve is overwritten by
\* the inline text
update_body_bad_ref_inline(acc, field, value, md_exists, creating_new_md) ==
    LET normalized_value == IF value.t = "str" THEN value.v ELSE ""
        prompt_ref == IF field \in DOMAIN acc.existing
                         /\ acc.existing[field].t = "str"
                      THEN acc.existing[field].v ELSE None
    IN  IF md_exists \/ creating_new_md THEN
            IF acc.md_some
            THEN [acc EXCEPT !.body = normalized_value,
                             !.md_modified = TRUE]
            ELSE acc
        ELSE IF /\ prompt_ref # None
                /\ is_prompt_file_reference(prompt_ref)
                /\ resolve_prompt_file_path(prompt_ref) # None
        THEN [acc EXCEPT !.st = write_prompt_file(@,
                  resolve_prompt_file_path(prompt_ref), normalized_value)]
        ELSE [acc EXCEPT !.existing = Put(@, field, Str(normalized_value)),
                         !.json_modified = TRUE]

\* field == "prompt" / "template": the Markdown body, the referenced prompt
\* file, or the JSON record
update_body(acc, field, value, md_exists, creating_new_md) ==
    LET normalized_value == IF value.t = "str" THEN value.v ELSE ""
        prompt_ref == IF field \in DOMAIN acc.existing
                         /\ acc.existing[field].t = "str"
                      THEN acc.existing[field].v ELSE None
    IN  IF md_exists \/ creating_new_md THEN
            IF acc.md_some
            THEN [acc EXCEPT !.body = normalized_value,
                             !.md_modified = TRUE]
            ELSE acc
        ELSE IF prompt_ref # None /\ is_prompt_file_reference(prompt_ref) THEN
            IF resolve_prompt_file_path(prompt_ref) # None
            THEN [acc EXCEPT !.st = write_prompt_file(@,
                      resolve_prompt_file_path(prompt_ref), normalized_value)]
            ELSE [acc EXCEPT !.err = "InvalidReference"]
        ELSE [acc EXCEPT !.existing = Put(@, field, Str(normalized_value)),
                         !.json_modified = TRUE]

\* as update_ordinary, but a field of the frontmatter is edited there before
\* the JSON record is looked at
update_ordinary_md_first(acc, field, value, md_exists, creating_new_md) ==
    LET in_md == acc.md_some /\ field \in DOMAIN acc.frontmatter
        in_json == field \in DOMAIN acc.existing
    IN  IF in_md \/ creating_new_md THEN
            [acc EXCEPT !.frontmatter = Put(@, field, value),
                        !.md_modified = TRUE]
        ELSE IF in_json THEN
            [acc EXCEPT !.existing = Put(@, field, value),
                        !.json_modified = TRUE]
        ELSE IF (md_exists \/ creating_new_md) /\ acc.md_some THEN
            [acc EXCEPT !.frontmatter = Put(@, field, value),
                        !.md_modified = TRUE]
        ELSE
            [acc EXCEPT !.existing = Put(@, field, value),
                        !.json_modified = TRUE]

\* as update_ordinary, but a field found in neither store goes to the JSON
\* record whenever that record has fields
update_ordinary_new_by_json_fields(acc, field, value, md_exists, creating_new_md) ==
    LET in_md == acc.md_some /\ field \in DOMAIN acc.frontmatter
        in_json == field \in DOMAIN acc.existing
    IN  IF in_json \/ (~in_md /\ acc.existing # EmptyMap) THEN
            [acc EXCEPT !.existing = Put(@, field, value),
                        !.json_modified = TRUE]
        ELSE IF acc.md_some THEN
            [acc EXCEPT !.frontmatter = Put(@, field, value),
                        !.md_modified = TRUE]
        ELSE acc

\* as update_ordinary, but a field found in neither store goes to the JSON
\* record also when a Markdown record is active
update_ordinary_new_to_json(acc, field, value, md_exists, creating_new_md) ==
    LET in_md == acc.md_some /\ field \in DOMAIN acc.frontmatter
        in_json == field \in DOMAIN acc.existing
    IN  IF in_json THEN
            [acc EXCEPT !.existing = Put(@, field, value),
                        !.json_modified = TRUE]
        ELSE IF in_md THEN
            [acc EXCEPT !.frontmatter = Put(@, field, value),
                        !.md_modified = TRUE]
        ELSE
            [acc EXCEPT !.existing = Put(@, field, value),
                        !.json_modified = TRUE]

\* any other field: the JSON record when it has the field, else the
\* frontmatter when it has the field or the file is being created, else
\* the frontmatter of an active Markdown record, else the JSON record
update_ordinary(acc, field, value, md_exists, creating_new_md) ==
    LET in_md == acc.md_some /\ field \in DOMAIN acc.frontmatter
        in_json == field \in DOMAIN acc.existing
    IN  IF in_json THEN
            [acc EXCEPT !.existing = Put(@, field, value),
                        !.json_modified = TRUE]
        ELSE IF in_md \/ creating_new_md THEN
            IF acc.md_some
            THEN [acc EXCEPT !.frontmatter = Put(@, field, value),
                             !.md_modified = TRUE]
            ELSE acc
        ELSE IF (md_exists \/ creating_new_md) /\ acc.md_some THEN
            [acc EXCEPT !.frontmatter = Put(@, field, value),
                        !.md_modified = TRUE]
        ELSE
            [acc EXCEPT !.existing = Put(@, field, value),
                        !.json_modified = TRUE]

\* one iteration of the loop
update_field(acc, kind, field, value, md_exists, creating_new_md) ==
    IF is_null(value) THEN update_null(acc, field, md_exists)
    ELSE IF field = BodyField(kind)
    THEN update_body(acc, field, value, md_exists, creating_new_md)
    ELSE update_ordinary(acc, field, value, md_exists, creating_new_md)

\* as update_loop, but the loop ends after the first edit
update_loop_first_only(acc, kind, updates, order, md_exists, creating_new_md) ==
    IF order = <<>> \/ acc.err # Ok THEN acc
    ELSE update_field(acc, kind, Head(order), updates[Head(order)],
                      md_exists, creating_new_md)

\* the loop over updates.iter(); order is the iteration order of the
\* HashMap; an error returns from the function at once
RECURSIVE update_loop(_, _, _, _, _, _)
update_loop(acc, kind, updates, order, md_exists, creating_new_md) ==
    IF order = <<>> \/ acc.err # Ok THEN acc
    ELSE update_loop(
            update_field(acc, kind, Head(order), updates[Head(order)],
                         md_exists, creating_new_md),
            kind, updates, Tail(order), md_exists, creating_new_md)

\* as insert_entry, but the section is replaced by a map of the one entry
insert_entry_fresh_section(config, section_key, name, entry) ==
    LET root == IF is_object(config) THEN config.v ELSE EmptyMap
    IN  Obj(Put(root, section_key, Obj(Map1(name, entry))))

\* config_obj.entry(section).or_insert(..); a non-object root or section is
\* replaced by an empty map; then section.insert(name, entry)
insert_entry(config, section_key, name, entry) ==
    LET root == IF is_object(config) THEN config.v ELSE EmptyMap
        section == IF section_key \in DOMAIN root /\ is_object(root[section_key])
                   THEN root[section_key].v ELSE EmptyMap
    IN  Obj(Put(root, section_key, Obj(Put(section, name, entry))))

\* the write-back of update_agent / update_command: the Markdown file
\* first, then the JSON layer unless the entity lives in Markdown only
update_write_back(acc, layers, section_key, name, target_path, json_target_path, md_exists, had_json_fields) ==
    LET st1 == IF acc.md_modified /\ acc.md_some
               THEN write_md_file(acc.st, target_path, acc.frontmatter, acc.body)
               ELSE acc.st
        json_modified == acc.json_modified /\ ~(md_exists /\ ~had_json_fields)
        config == LayerTree(layers, get_config_for_path(layers, json_target_path))
    IN  IF json_modified
        THEN write_config_at(st1,
                 insert_entry(config, section_key, name, Obj(acc.existing)),
                 json_target_path)
        ELSE st1

\* as update_entity, but the JSON record is written to the write-target
\* layer instead of the layer that holds it
update_entity_write_target(st, cs, kind, name, updates, order, wd) ==
    LET write_path == get_write_path(st, kind, name, wd, None)
        md_path == write_path.path
        md_exists == exists(st.md[md_path])
        layers == read_config_layers(st, cs, wd)
        json_source == get_json_entry_source(layers, SectionKey(kind), name)
        existing == IF is_object(json_source.section)
                    THEN json_source.section.v ELSE EmptyMap
        had_json_fields == existing # EmptyMap
        preferred_scope == IF wd THEN "project" ELSE "user"
        json_target_path == get_json_write_target(layers, preferred_scope)
        is_builtin_override == ~md_exists /\ ~had_json_fields
        target_path == IF ~md_exists /\ is_builtin_override
                       THEN MdPath(kind, "user", name) ELSE md_path
        md_data == IF md_exists THEN parse_md_file(st.md[md_path])
                   ELSE [frontmatter |-> EmptyMap, body |-> ""]
        creating_new_md == is_builtin_override
        acc0 == [md_some |-> md_exists \/ is_builtin_override,
                 frontmatter |-> md_data.frontmatter,
                 body |-> md_data.body,
                 existing |-> existing,
                 md_modified |-> FALSE,
                 json_modified |-> FALSE,
                 st |-> st,
                 err |-> Ok]
        acc == update_loop(acc0, kind, updates, order, md_exists, creating_new_md)
    IN  IF ~layers.ok THEN [st |-> st, res |-> "ParseError"]
        ELSE IF acc.err # Ok THEN [st |-> acc.st, res |-> acc.err]
        ELSE [st |-> update_write_back(acc, layers, SectionKey(kind), name,
                         target_path, json_target_path, md_exists,
                         had_json_fields),
              res |-> Ok]

\* as update_entity, but a Markdown record is materialized whenever no
\* Markdown file exists
update_entity_always_materialize(st, cs, kind, name, updates, order, wd) ==
    LET write_path == get_write_path(st, kind, name, wd, None)
        md_path == write_path.path
        md_exists == exists(st.md[md_path])
        layers == read_config_layers(st, cs, wd)
        json_source == get_json_entry_source(layers, SectionKey(kind), name)
        existing == IF is_object(json_source.section)
                    THEN json_source.section.v ELSE EmptyMap
        had_json_fields == existing # EmptyMap
        preferred_scope == IF wd THEN "project" ELSE "user"
        json_target_path == IF json_source.exists THEN json_source.path
                            ELSE get_json_write_target(layers, preferred_scope)
        is_builtin_override == ~md_exists
        target_path == IF ~md_exists /\ is_builtin_override
                       THEN MdPath(kind, "user", name) ELSE md_path
        md_data == IF md_exists THEN parse_md_file(st.md[md_path])
                   ELSE [frontmatter |-> EmptyMap, body |-> ""]
        creating_new_md == is_builtin_override
        acc0 == [md_some |-> md_exists \/ is_builtin_override,
                 frontmatter |-> md_data.frontmatter,
                 body |-> md_data.body,
                 existing |-> existing,
                 md_modified |-> FALSE,
                 json_modified |-> FALSE,
                 st |-> st,
                 err |-> Ok]
        acc == update_loop(acc0, kind, updates, order, md_exists, creating_new_md)
    IN  IF ~layers.ok THEN [st |-> st, res |-> "ParseError"]
        ELSE IF acc.err # Ok THEN [st |-> acc.st, res |-> acc.err]
        ELSE [st |-> update_write_back(acc, layers, SectionKey(kind), name,
                         target_path, json_target_path, md_exists,
                         had_json_fields),
              res |-> Ok]

\* update_agent / update_command: the store after the call and its result
update_entity(st, cs, kind, name, updates, order, wd) ==
    LET write_path == get_write_path(st, kind, name, wd, None)
        md_path == write_path.path
        md_exists == exists(st.md[md_path])
        layers == read_config_layers(st, cs, wd)
        json_source == get_json_entry_source(layers, SectionKey(kind), name)
        existing == IF is_object(json_source.section)
                    THEN json_source.section.v ELSE EmptyMap
        had_json_fields == existing # EmptyMap
        preferred_scope == IF wd THEN "project" ELSE "user"
        json_target_path == IF json_source.exists THEN json_source.path
                            ELSE get_json_write_target(layers, preferred_scope)
        is_builtin_override == ~md_exists /\ ~had_json_fields
        target_path == IF ~md_exists /\ is_builtin_override
                       THEN MdPath(kind, "user", name) ELSE md_path
        md_data == IF md_exists THEN parse_md_file(st.md[md_path])
                   ELSE [frontmatter |-> EmptyMap, body |-> ""]
        creating_new_md == is_builtin_override
        acc0 == [md_some |-> md_exists \/ is_builtin_override,
                 frontmatter |-> md_data.frontmatter,
                 body |-> md_data.body,
                 existing |-> existing,
                 md_modified |-> FALSE,
                 json_modified |-> FALSE,
                 st |-> st,
                 err |-> Ok]
        acc == update_loop(acc0, kind, updates, order, md_exists, creating_new_md)
    IN  IF ~layers.ok THEN [st |-> st, res |-> "ParseError"]
        ELSE IF acc.err # Ok THEN [st |-> acc.st, res |-> acc.err]
        ELSE [st |-> update_write_back(acc, layers, SectionKey(kind), name,
                         target_path, json_target_path, md_exists,
                         had_json_fields),
              res |-> Ok]

(***************************************************************************)
(* delete_agent / delete_command                                           *)
(***************************************************************************)
\* fs::remove_file
remove_file(st, file_path) == [st EXCEPT !.md[file_path] = NoMd]

\* as remove_entry, but the entry is taken out of a copy that is dropped
remove_entry_keep(config, section_key, name) ==
    config

\* config.get_mut(section).and_then(as_object_mut) ... remove(name)
remove_entry(config, section_key, name) ==
    Obj(Put(config.v, section_key, Obj(Del(config.v[section_key].v, name))))

\* as delete_existing, but the JSON entry is left alone by a call that
\* removed a Markdown file
delete_existing_md_then_json(st, cs, kind, name, wd) ==
    LET project_path == MdPath(kind, "project", name)
        user_path == MdPath(kind, "user", name)
        project_found == wd /\ exists(st.md[project_path])
        st1 == IF project_found THEN remove_file(st, project_path) ELSE st
        user_found == exists(st1.md[user_path])
        st2 == IF user_found THEN remove_file(st1, user_path) ELSE st1
        layers == read_config_layers(st2, cs, wd)
        json_source == get_json_entry_source(layers, SectionKey(kind), name)
        which == get_config_for_path(layers, json_source.path)
        config == LayerTree(layers, which)
        json_found == /\ ~project_found /\ ~user_found
                      /\ layers.ok
                      /\ json_source.exists
                      /\ LayerEntry(config, SectionKey(kind), name) # NoValue
        st3 == IF json_found
               THEN write_config_at(st2,
                        remove_entry(config, SectionKey(kind), name),
                        json_source.path)
               ELSE st2
    IN  [st |-> st3,
         ok |-> layers.ok,
         deleted |-> project_found \/ user_found \/ json_found,
         layers |-> layers]

\* steps 1-3 of delete_agent / delete_command: remove the project file,
\* the user file and the highest-precedence JSON entry
delete_existing(st, cs, kind, name, wd) ==
    LET project_path == MdPath(kind, "project", name)
        user_path == MdPath(kind, "user", name)
        project_found == wd /\ exists(st.md[project_path])
        st1 == IF project_found THEN remove_file(st, project_path) ELSE st
        user_found == exists(st1.md[user_path])
        st2 == IF user_found THEN remove_file(st1, user_path) ELSE st1
        layers == read_config_layers(st2, cs, wd)
        json_source == get_json_entry_source(layers, SectionKey(kind), name)
        which == get_config_for_path(layers, json_source.path)
        config == LayerTree(layers, which)
        json_found == /\ layers.ok
                      /\ json_source.exists
                      /\ LayerEntry(config, SectionKey(kind), name) # NoValue
        st3 == IF json_found
               THEN write_config_at(st2,
                        remove_entry(config, SectionKey(kind), name),
                        json_source.path)
               ELSE st2
    IN  [st |-> st3,
         ok |-> layers.ok,
         deleted |-> project_found \/ user_found \/ json_found,
         layers |-> layers]

\* as disable_agent, but the marker always goes to the user layer
disable_agent_user_layer(st, layers, name, wd) ==
    LET json_path == layers.paths.user
        config == LayerTree(layers, get_config_for_path(layers, json_path))
        disable_obj == Obj(Put(EmptyMap, "disable", True))
    IN  write_config_at(st, insert_entry(config, "agent", name, disable_obj),
                        json_path)

\* step 4 of delete_agent: {"disable": true} in the write-target layer
disable_agent(st, layers, name, wd) ==
    LET preferred_scope == IF wd THEN "project" ELSE "user"
        json_path == get_json_write_target(layers, preferred_scope)
        config == LayerTree(layers, get_config_for_path(layers, json_path))
        disable_obj == Obj(Put(EmptyMap, "disable", True))
    IN  write_config_at(st, insert_entry(config, "agent", name, disable_obj),
                        json_path)

\* as delete_agent_fn, but a delete that found nothing fails like
\* delete_command
delete_agent_fn_not_found(st, cs, name, wd) ==
    LET d == delete_existing(st, cs, "agent", name, wd)
    IN  IF ~d.ok THEN [st |-> d.st, res |-> "ParseError"]
        ELSE IF ~d.deleted THEN [st |-> d.st, res |-> "NotFound"]
        ELSE [st |-> d.st, res |-> Ok]

delete_agent_fn(st, cs, name, wd) ==
    LET d == delete_existing(st, cs, "agent", name, wd)
    IN  IF ~d.ok THEN [st |-> d.st, res |-> "ParseError"]
        ELSE IF ~d.deleted
        THEN [st |-> disable_agent(d.st, d.layers, name, wd), res |-> Ok]
        ELSE [st |-> d.st, res |-> Ok]

\* as delete_command_fn, but a delete that found nothing reports success
delete_command_fn_ok(st, cs, name, wd) ==
    LET d == delete_existing(st, cs, "command", name, wd)
    IN  IF ~d.ok THEN [st |-> d.st, res |-> "ParseError"]
        ELSE [st |-> d.st, res |-> Ok]

delete_command_fn(st, cs, name, wd) ==
    LET d == delete_existing(st, cs, "command", name, wd)
    IN  IF ~d.ok THEN [st |-> d.st, res |-> "ParseError"]
        ELSE IF ~d.deleted THEN [st |-> d.st, res |-> "NotFound"]
        ELSE [st |-> d.st, res |-> Ok]

(***************************************************************************)
(* create_agent / create_command                                           *)
(***************************************************************************)
\* as create_entity, but the JSON layers are not looked at
create_entity_no_json_check(st, cs, kind, name, config, wd, scope) ==
    LET project_path == MdPath(kind, "project", name)
        user_path == MdPath(kind, "user", name)
        target_path == IF scope = "project" /\ wd THEN project_path
                       ELSE user_path
        body_field == BodyField(kind)
        prompt == IF body_field \in DOMAIN config /\ config[body_field].t = "str"
                  THEN config[body_field].v ELSE ""
        frontmatter == Del(Del(config, body_field), "scope")
    IN  IF wd /\ exists(st.md[project_path])
        THEN [st |-> st, res |-> "AlreadyExists"]
        ELSE IF exists(st.md[user_path])
        THEN [st |-> st, res |-> "AlreadyExists"]
        ELSE [st |-> write_md_file(st, target_path, frontmatter, prompt),
              res |-> Ok]

\* as create_entity, but a supplied working directory alone selects the
\* project path
create_entity_wd_project(st, cs, kind, name, config, wd, scope) ==
    LET project_path == MdPath(kind, "project", name)
        user_path == MdPath(kind, "user", name)
        layers == read_config_layers(st, cs, wd)
        json_source == get_json_entry_source(layers, SectionKey(kind), name)
        target_path == IF wd THEN project_path ELSE user_path
        body_field == BodyField(kind)
        prompt == IF body_field \in DOMAIN config /\ config[body_field].t = "str"
                  THEN config[body_field].v ELSE ""
        frontmatter == Del(Del(config, body_field), "scope")
    IN  IF wd /\ exists(st.md[project_path])
        THEN [st |-> st, res |-> "AlreadyExists"]
        ELSE IF exists(st.md[user_path])
        THEN [st |-> st, res |-> "AlreadyExists"]
        ELSE IF ~layers.ok THEN [st |-> st, res |-> "ParseError"]
        ELSE IF json_source.exists THEN [st |-> st, res |-> "AlreadyExists"]
        ELSE [st |-> write_md_file(st, target_path, frontmatter, prompt),
              res |-> Ok]

create_entity(st, cs, kind, name, config, wd, scope) ==
    LET project_path == MdPath(kind, "project", name)
        user_path == MdPath(kind, "user", name)
        layers == read_config_layers(st, cs, wd)
        json_source == get_json_entry_source(layers, SectionKey(kind), name)
        target_path == IF scope = "project" /\ wd THEN project_path
                       ELSE user_path
        body_field == BodyField(kind)
        prompt == IF body_field \in DOMAIN config /\ config[body_field].t = "str"
                  THEN config[body_field].v ELSE ""
        frontmatter == Del(Del(config, body_field), "scope")
    IN  IF wd /\ exists(st.md[project_path])
        THEN [st |-> st, res |-> "AlreadyExists"]
        ELSE IF exists(st.md[user_path])
        THEN [st |-> st, res |-> "AlreadyExists"]
        ELSE IF ~layers.ok THEN [st |-> st, res |-> "ParseError"]
        ELSE IF json_source.exists THEN [st |-> st, res |-> "AlreadyExists"]
        ELSE [st |-> write_md_file(st, target_path, frontmatter, prompt),
              res |-> Ok]

(***************************************************************************)
(* get_agent_sources / get_command_sources                                 *)
(***************************************************************************)
get_sources(st, cs, kind, name, wd) ==
    LET project_path == IF wd THEN MdPath(kind, "project", name) ELSE <<>>
        project_exists == wd /\ exists(st.md[MdPath(kind, "project", name)])
        user_path == MdPath(kind, "user", name)
        user_exists == exists(st.md[user_path])
        md_path == IF project_exists THEN project_path
                   ELSE IF user_exists THEN user_path ELSE <<>>
        md_exists == project_exists \/ user_exists
        md_scope == IF project_exists THEN "project"
                    ELSE IF user_exists THEN "user" ELSE None
        md_data == IF md_exists THEN parse_md_file(st.md[md_path])
                   ELSE [frontmatter |-> EmptyMap, body |-> ""]
        md_fields == DOMAIN md_data.frontmatter \cup
                     (IF Trim(md_data.body) # "" THEN {BodyField(kind)} ELSE {})
        layers == read_config_layers(st, cs, wd)
        json_source == get_json_entry_source(layers, SectionKey(kind), name)
        json_fields == IF is_object(json_source.section)
                       THEN DOMAIN json_source.section.v ELSE {}
        json_path == IF json_source.path # None THEN json_source.path
                     ELSE get_default_json_path(layers)
        json_scope == IF layers.paths.project = json_path THEN "project"
                      ELSE "user"
    IN  IF ~layers.ok THEN [res |-> "ParseError"]
        ELSE [res |-> Ok,
              md |-> [exists |-> md_exists, path |-> md_path,
                      fields |-> md_fields, scope |-> md_scope],
              json |-> [exists |-> json_source.exists, path |-> json_path,
                        fields |-> json_fields,
                        scope |-> IF json_source.exists THEN json_scope
                                  ELSE None],
              project_md |-> [exists |-> project_exists, path |-> project_path],
              user_md |-> [exists |-> user_exists, path |-> user_path]]

(***************************************************************************)
(* Initial file stores                                                     *)
(***************************************************************************)
\* the entity the calls address, and a sibling entry of the same section
Target == "a"

Sibling == "b"

SiblingEntry == Obj(Map1("model", Str("v1")))

\* JSON records of the target entity
SeedEntries(kind) ==
    [model |-> Obj(Map1("model", Str("v1"))),
     inline |-> Obj(Map2("model", Str("v1"), BodyField(kind), Str("v1"))),
     ref |-> Obj(Map1(BodyField(kind), Str("{file:p.txt}"))),
     refdot |-> Obj(Map2("model", Str("v1"),
                         BodyField(kind), Str("{FILE:./p.txt}"))),
     badref |-> Obj(Map2("model", Str("v1"),
                         BodyField(kind), Str("{file: }"))),
     empty |-> EmptyObj,
     scalar |-> Str("x")]

EntryShapes == {"model", "inline", "ref", "refdot", "badref", "empty", "scalar"}

\* a layer tree holding the target (shape e) and its sibling in both
\* sections, next to an unrelated top-level key
EntityTree(e) ==
    Obj(Map3("theme", Str("dark"),
             "agent", Obj(Map2(Target, SeedEntries("agent")[e],
                               Sibling, SiblingEntry)),
             "command", Obj(Map2(Target, SeedEntries("command")[e],
                                 Sibling, SiblingEntry))))

SiblingTree ==
    Obj(Map3("theme", Str("dark"),
             "agent", Obj(Map1(Sibling, SiblingEntry)),
             "command", Obj(Map1(Sibling, SiblingEntry))))

PlainTree == Obj(Map1("theme", Str("dark")))

\* both sections are not maps
ScalarSectionTree ==
    Obj(Map3("theme", Str("dark"), "agent", Str("x"), "command", Str("x")))

\* every content the user layer file starts with
UserSeeds ==
    {NoFile, BlankFile, BadFile, JsonFile(PlainTree), JsonFile(SiblingTree),
     JsonFile(ScalarSectionTree), JsonFile(Str("x"))}
    \cup {JsonFile(EntityTree(e)) : e \in EntryShapes}

\* the contents of the project and override layer files that are combined
\* with each other
LayerSeeds == {NoFile, JsonFile(EntityTree("model")), JsonFile(SiblingTree)}

ProjectSeeds ==
    {NoFile, JsonFile(EntityTree("inline")), JsonFile(SiblingTree), BadFile}

MdSeed(body) == MdFile(Map1("model", Str("v1")), body)

ProjectMdSeeds == {NoMd, MdSeed("b1")}

UserMdSeeds == {NoMd, MdSeed(" b1 "), MdFile(EmptyMap, "b1")}

MdPaths == Kinds \X Scopes \X Names

\* the same Markdown files for the agent and the command named Target
SeedMd(pm, um) ==
    [p \in MdPaths |->
        IF p[3] # Target THEN NoMd
        ELSE IF p[2] = "project" THEN pm ELSE um]

SeedStore(u, pj, c, pm, um) ==
    [cfg |-> [l \in Layers |->
                 CASE l = "user" -> u [] l = "project" -> pj [] OTHER -> c],
     bak |-> [l \in Layers |-> NoFile],
     md |-> SeedMd(pm, um),
     mdbak |-> [p \in MdPaths |-> NoMd],
     prompt |-> [p \in PromptPaths |-> NoText]]

\* every user layer content with the other layers absent, and every
\* combination of the three layers over LayerSeeds
SeedLayers ==
    {<<u, NoFile, NoFile, FALSE>> : u \in UserSeeds}
    \cup {<<u, pj, c, TRUE>> : u \in LayerSeeds, pj \in ProjectSeeds,
                               c \in LayerSeeds}
    \cup {<<u, pj, NoFile, FALSE>> : u \in LayerSeeds, pj \in ProjectSeeds}

NoCall == [op |-> "none"]

NoHist == [l \in Layers |-> [found |-> FALSE, before |-> NoFile]]

\* no update call is running step by step
NoLocal == <<>>

Init ==
    /\ \E l \in SeedLayers, pm \in ProjectMdSeeds, um \in UserMdSeeds :
          /\ store = SeedStore(l[1], l[2], l[3], pm, um)
          /\ customSet = l[4]
    /\ pc = "idle"
    /\ last = NoCall
    /\ pre = store
    /\ calls = 0
    /\ hist = NoHist
    /\ local = NoLocal

(***************************************************************************)
(* Call inputs                                                             *)
(***************************************************************************)
EditFields(kind) == {"model", BodyField(kind)}

EditVals == {Null, Str("v2")}

\* the updates maps of update_agent / update_command
UpdateMaps(kind) ==
    UNION {[D -> EditVals] : D \in SUBSET EditFields(kind)}

\* the iteration orders of a HashMap with key set D
Orders(D) ==
    {o \in [1..Cardinality(D) -> D] : \A i, j \in 1..Cardinality(D) :
                                          o[i] = o[j] => i = j}

\* the config maps of create_agent / create_command
CreateMaps(kind) ==
    {EmptyMap,
     Map3("model", Str("v2"), BodyField(kind), Str("v2"),
          "scope", Str("project")),
     Map2("model", Null, BodyField(kind), True)}

RequestedScopes == {None, "user", "project"}

(***************************************************************************)
(* Actions: one call of a public function                                  *)
(***************************************************************************)
Call(rec, st) ==
    /\ pc = "idle"
    /\ calls < MaxCalls
    /\ pc' = "returned"
    /\ calls' = calls + 1
    /\ pre' = store
    /\ store' = st
    /\ last' = rec
    /\ UNCHANGED <<customSet, hist, local>>

ScopeCall(kind, name, wd) ==
    Call([op |-> "scope", kind |-> kind, name |-> name, wd |-> wd,
          out |-> get_scope(store, kind, name, wd)], store)

get_agent_scope(name, wd) == ScopeCall("agent", name, wd)

get_command_scope(name, wd) == ScopeCall("command", name, wd)

SourcesCall(kind, name, wd) ==
    Call([op |-> "sources", kind |-> kind, name |-> name, wd |-> wd,
          out |-> get_sources(store, customSet, kind, name, wd)], store)

get_agent_sources(name, wd) == SourcesCall("agent", name, wd)

get_command_sources(name, wd) == SourcesCall("command", name, wd)

UpdateCall(kind, name, updates, order, wd) ==
    LET r == update_entity(store, customSet, kind, name, updates, order, wd)
    IN  Call([op |-> "update", kind |-> kind, name |-> name, wd |-> wd,
              updates |-> updates, order |-> order, res |-> r.res], r.st)

update_agent(name, updates, order, wd) ==
    UpdateCall("agent", name, updates, order, wd)

update_command(name, updates, order, wd) ==
    UpdateCall("command", name, updates, order, wd)

CreateCall(kind, name, config, wd, scope) ==
    LET r == create_entity(store, customSet, kind, name, config, wd, scope)
    IN  Call([op |-> "create", kind |-> kind, name |-> name, wd |-> wd,
              config |-> config, scope |-> scope, res |-> r.res], r.st)

create_agent(name, config, wd, scope) ==
    CreateCall("agent", name, config, wd, scope)

create_command(name, config, wd, scope) ==
    CreateCall("command", name, config, wd, scope)

delete_agent(name, wd) ==
    LET r == delete_agent_fn(store, customSet, name, wd)
    IN  Call([op |-> "delete", kind |-> "agent", name |-> name, wd |-> wd,
              res |-> r.res], r.st)

delete_command(name, wd) ==
    LET r == delete_command_fn(store, customSet, name, wd)
    IN  Call([op |-> "delete", kind |-> "command", name |-> name, wd |-> wd,
              res |-> r.res], r.st)

\* the caller takes the result; the next call starts from the store as it is
Return ==
    /\ pc = "returned"
    /\ pc' = "idle"
    /\ last' = NoCall
    /\ pre' = store
    /\ UNCHANGED <<store, customSet, calls, hist, local>>

Next ==
    \/ \E wd \in BOOLEAN : get_agent_scope(Target, wd)
    \/ \E wd \in BOOLEAN : get_command_scope(Target, wd)
    \/ \E wd \in BOOLEAN : get_agent_sources(Target, wd)
    \/ \E wd \in BOOLEAN : get_command_sources(Target, wd)
    \/ \E wd \in BOOLEAN, u \in UpdateMaps("agent") :
          \E o \in Orders(DOMAIN u) : update_agent(Target, u, o, wd)
    \/ \E wd \in BOOLEAN, u \in UpdateMaps("command") :
          \E o \in Orders(DOMAIN u) : update_command(Target, u, o, wd)
    \/ \E wd \in BOOLEAN, c \in CreateMaps("agent"), s \in RequestedScopes :
          create_agent(Target, c, wd, s)
    \/ \E wd \in BOOLEAN, c \in CreateMaps("command"), s \in RequestedScopes :
          create_command(Target, c, wd, s)
    \/ \E wd \in BOOLEAN : delete_agent(Target, wd)
    \/ \E wd \in BOOLEAN : delete_command(Target, wd)
    \/ Return

Spec == Init /\ [][Next]_vars

(***************************************************************************)
(* Direct calls of the public write_config_at, in any sequence             *)
(***************************************************************************)
\* what the layer files hold before the first call
WriteSeeds == {NoFile, BlankFile}

\* the values written
WriteConfigs == {EmptyObj, PlainTree, SiblingTree}

InitWrite ==
    /\ \E u \in WriteSeeds, pj \in WriteSeeds :
          store = SeedStore(u, pj, NoFile, NoMd, NoMd)
    /\ customSet = FALSE
    /\ pc = "idle"
    /\ last = NoCall
    /\ pre = store
    /\ calls = 0
    /\ hist = NoHist
    /\ local = NoLocal

\* write_config_at(config, config_file); hist keeps, per path, whether some
\* call found the file present and what it held at the latest such call
WriteConfigAt(config, config_file) ==
    /\ calls < MaxWrites
    /\ calls' = calls + 1
    /\ pre' = store
    /\ store' = write_config_at(store, config, config_file)
    /\ last' = [op |-> "write", path |-> config_file]
    /\ hist' = IF exists(store.cfg[config_file])
               THEN [hist EXCEPT ![config_file] =
                        [found |-> TRUE, before |-> store.cfg[config_file]]]
               ELSE hist
    /\ UNCHANGED <<customSet, pc, local>>

NextWrite == \E c \in WriteConfigs, l \in Layers : WriteConfigAt(c, l)

SpecWrite == InitWrite /\ [][NextWrite]_vars

(***************************************************************************)
(* get_json_write_target applied to the layers of every seeded store       *)
(***************************************************************************)
\* Option<Scope>
PreferredScopes == {None, "user", "project"}

\* get_json_write_target(&layers, preferred_scope) on freshly read layers
JsonWriteTarget(wd, preferred_scope) ==
    LET layers == read_config_layers(store, customSet, wd)
    IN  /\ layers.ok
        /\ Call([op |-> "target", wd |-> wd,
                 preferred_scope |-> preferred_scope,
                 out |-> get_json_write_target(layers, preferred_scope)],
                store)

NextTarget ==
    \/ \E wd \in BOOLEAN, ps \in PreferredScopes : JsonWriteTarget(wd, ps)
    \/ Return

SpecTarget == Init /\ [][NextTarget]_vars

(***************************************************************************)
(* merge_values applied to pairs of bounded JSON values                    *)
(***************************************************************************)
\* the maps over the keys K with values in V, defined on any subset of K
MapsOver(K, V) == UNION {[D -> V] : D \in SUBSET K}

\* scalars and arrays
MergeLeaves == {Null, Str("1"), Arr(<<Str("1")>>), Arr(<<Str("2")>>)}

\* maps of strings
MergeInnerMaps ==
    {EmptyObj, Obj(Map1("x", Str("1"))), Obj(Map1("x", Str("2"))),
     Obj(Map1("y", Str("2"))), Obj(Map2("x", Str("1"), "y", Str("2")))}

MergeInner == MergeLeaves \cup MergeInnerMaps

\* leaves, maps of strings, and maps of those
MergeValues ==
    MergeInner \cup {Obj(f) : f \in MapsOver({"a", "b"}, MergeInner)}

InitMerge ==
    /\ store = SeedStore(NoFile, NoFile, NoFile, NoMd, NoMd)
    /\ customSet = FALSE
    /\ pc = "idle"
    /\ last = NoCall
    /\ pre = store
    /\ calls = 0
    /\ hist = NoHist
    /\ local = NoLocal

MergeValuesCall(base, overlay) ==
    Call([op |-> "merge", base |-> base, overlay |-> overlay,
          out |-> merge_values(base, overlay)], store)

NextMerge ==
    \/ \E base \in MergeValues, overlay \in MergeValues :
          MergeValuesCall(base, overlay)
    \/ Return

SpecMerge == InitMerge /\ [][NextMerge]_vars

(***************************************************************************)
(* write_md_file applied to bounded frontmatter maps and bodies            *)
(***************************************************************************)
\* frontmatter maps, null values included
MdFrontmatters == MapsOver({"model", "mode"}, {Null, Str("v1"), True})

\* body texts: empty, plain, with surrounding whitespace, whitespace only
MdBodies == {"", "b1", " b1 ", " "}

InitMd ==
    /\ \E pm \in ProjectMdSeeds, um \in UserMdSeeds :
          store = SeedStore(NoFile, NoFile, NoFile, pm, um)
    /\ customSet = FALSE
    /\ pc = "idle"
    /\ last = NoCall
    /\ pre = store
    /\ calls = 0
    /\ hist = NoHist
    /\ local = NoLocal

WriteMdFile(file_path, frontmatter, body) ==
    Call([op |-> "write_md", path |-> file_path,
          frontmatter |-> frontmatter, body |-> body],
         write_md_file(store, file_path, frontmatter, body))

NextMd ==
    \/ \E p \in MdPaths, fm \in MdFrontmatters, b \in MdBodies :
          WriteMdFile(p, fm, b)
    \/ Return

SpecMd == InitMd /\ [][NextMd]_vars

(***************************************************************************)
(* update_agent / update_command step by step: two calls that run          *)
(* concurrently, every file operation one step, file writes may fail       *)
(***************************************************************************)
Procs == {1, 2}

\* what update_agent / update_command has computed when the loop over the
\* edits ends: the result so far, the store (referenced files are written
\* inside the loop), and the pending Markdown and JSON writes
update_plan(st, cs, kind, name, updates, order, wd) ==
    LET write_path == get_write_path(st, kind, name, wd, None)
        md_path == write_path.path
        md_exists == exists(st.md[md_path])
        layers == read_config_layers(st, cs, wd)
        json_source == get_json_entry_source(layers, SectionKey(kind), name)
        existing == IF is_object(json_source.section)
                    THEN json_source.section.v ELSE EmptyMap
        had_json_fields == existing # EmptyMap
        preferred_scope == IF wd THEN "project" ELSE "user"
        json_target_path == IF json_source.exists THEN json_source.path
                            ELSE get_json_write_target(layers, preferred_scope)
        is_builtin_override == ~md_exists /\ ~had_json_fields
        target_path == IF ~md_exists /\ is_builtin_override
                       THEN MdPath(kind, "user", name) ELSE md_path
        md_data == IF md_exists THEN parse_md_file(st.md[md_path])
                   ELSE [frontmatter |-> EmptyMap, body |-> ""]
        creating_new_md == is_builtin_override
        acc0 == [md_some |-> md_exists \/ is_builtin_override,
                 frontmatter |-> md_data.frontmatter,
                 body |-> md_data.body,
                 existing |-> existing,
                 md_modified |-> FALSE,
                 json_modified |-> FALSE,
                 st |-> st,
                 err |-> Ok]
        acc == update_loop(acc0, kind, updates, order, md_exists, creating_new_md)
        config == LayerTree(layers,
                            get_config_for_path(layers, json_target_path))
    IN  [res |-> IF ~layers.ok THEN "ParseError" ELSE acc.err,
         st |-> IF layers.ok THEN acc.st ELSE st,
         md_write |-> acc.md_modified /\ acc.md_some,
         target_path |-> target_path,
         frontmatter |-> acc.frontmatter,
         body |-> acc.body,
         json_write |-> acc.json_modified /\ ~(md_exists /\ ~had_json_fields),
         json_target_path |-> json_target_path,
         config |-> insert_entry(config, SectionKey(kind), name,
                                 Obj(acc.existing))]

\* the stores the concurrent calls start from
StepSeeds ==
    {SeedStore(u, NoFile, NoFile, NoMd, um) :
        u \in {NoFile, JsonFile(EntityTree("model")),
               JsonFile(EntityTree("inline"))},
        um \in {NoMd, MdSeed("b1")}}

\* the updates maps of the concurrent calls
StepUpdates(kind) ==
    {Map1("model", Str("v2")),
     Map1(BodyField(kind), Str("v2")),
     Map2("model", Str("v2"), BodyField(kind), Str("v2")),
     Map1("model", Null)}

InitSteps ==
    /\ store \in StepSeeds
    /\ customSet = FALSE
    /\ pc = "idle"
    /\ last = NoCall
    /\ pre = store
    /\ calls = 0
    /\ hist = <<>>
    /\ local = [p \in Procs |-> [pc |-> "idle"]]

\* the call of process p ends with result res; failed_at names the step
\* that failed, if one did
Finish(p, res, failed_at) ==
    local' = [local EXCEPT ![p].pc = "done", ![p].res = res,
                           ![p].failed_at = failed_at]

\* the call up to the end of the loop over the edits: the layers and the
\* Markdown file are read, the edits applied in memory; at_load and
\* writes_at_load keep the store read and the number of layer writes of
\* all calls so far
UpdateLoad(p, kind, name, updates, order, wd) ==
    /\ local[p].pc = "idle"
    /\ LET plan == update_plan(store, customSet, kind, name, updates, order, wd)
       IN  /\ store' = plan.st
           /\ local' = [local EXCEPT ![p] =
                  [pc |-> IF plan.res = Ok THEN "write_md" ELSE "done",
                   kind |-> kind, name |-> name, updates |-> updates,
                   plan |-> plan,
                   res |-> IF plan.res = Ok THEN None ELSE plan.res,
                   failed_at |-> None,
                   at_load |-> store,
                   writes_at_load |-> Len(hist),
                   writes_at_backup |-> 0]]
    /\ calls' = calls + 1
    /\ UNCHANGED <<customSet, pc, last, pre, hist>>

\* if md_modified: write_md_file(&target_path, ..).await
UpdateWriteMd(p) ==
    /\ local[p].pc = "write_md"
    /\ store' = IF local[p].plan.md_write
                THEN write_md_file(store, local[p].plan.target_path,
                                   local[p].plan.frontmatter,
                                   local[p].plan.body)
                ELSE store
    /\ local' = [local EXCEPT ![p].pc = "backup"]
    /\ UNCHANGED <<customSet, pc, last, pre, calls, hist>>

\* write_md_file(..).await? returns the error
UpdateWriteMdFails(p) ==
    /\ local[p].pc = "write_md"
    /\ local[p].plan.md_write
    /\ Finish(p, "IoError", "write_md")
    /\ UNCHANGED <<store, customSet, pc, last, pre, calls, hist>>

\* if json_modified: write_config_at, first half: fs::copy of an existing
\* layer file to its backup
UpdateBackup(p) ==
    /\ local[p].pc = "backup"
    /\ LET path == local[p].plan.json_target_path
       IN  IF ~local[p].plan.json_write
           THEN /\ Finish(p, Ok, None)
                /\ store' = store
           ELSE /\ store' = IF exists(store.cfg[path])
                            THEN [store EXCEPT !.bak[path] = store.cfg[path]]
                            ELSE store
                /\ local' = [local EXCEPT ![p].pc = "write_json",
                                          ![p].writes_at_backup = Len(hist)]
    /\ UNCHANGED <<customSet, pc, last, pre, calls, hist>>

\* fs::copy(..).await? returns the error
UpdateBackupFails(p) ==
    /\ local[p].pc = "backup"
    /\ local[p].plan.json_write
    /\ exists(store.cfg[local[p].plan.json_target_path])
    /\ Finish(p, "IoError", "backup")
    /\ UNCHANGED <<store, customSet, pc, last, pre, calls, hist>>

\* as UpdateWriteJson, but the record is put into the tree the layer file
\* holds at the time of the write
UpdateWriteJson_reload(p) ==
    /\ local[p].pc = "write_json"
    /\ LET path == local[p].plan.json_target_path
           now == read_config_file(store.cfg[path]).value
           record == get(get(local[p].plan.config, local[p].kind),
                         local[p].name)
       IN  store' = [store EXCEPT !.cfg[path] =
                        JsonFile(insert_entry(now, local[p].kind,
                                              local[p].name, record))]
    /\ hist' = Append(hist, p)
    /\ Finish(p, Ok, None)
    /\ UNCHANGED <<customSet, pc, last, pre, calls>>

\* write_config_at, second half: fs::write of the tree built from the
\* layers the call loaded; hist lists the writers in the order of their
\* writes
UpdateWriteJson(p) ==
    /\ local[p].pc = "write_json"
    /\ store' = [store EXCEPT !.cfg[local[p].plan.json_target_path] =
                     JsonFile(local[p].plan.config)]
    /\ hist' = Append(hist, p)
    /\ Finish(p, Ok, None)
    /\ UNCHANGED <<customSet, pc, last, pre, calls>>

\* as UpdateWriteJsonFails, but the Markdown file is put back as it was
\* when the call loaded it
UpdateWriteJsonFails_rollback(p) ==
    /\ local[p].pc = "write_json"
    /\ store' = [store EXCEPT !.md = local[p].at_load.md]
    /\ Finish(p, "IoError", "write_json")
    /\ UNCHANGED <<customSet, pc, last, pre, calls, hist>>

\* fs::write(..).await? returns the error
UpdateWriteJsonFails(p) ==
    /\ local[p].pc = "write_json"
    /\ Finish(p, "IoError", "write_json")
    /\ UNCHANGED <<store, customSet, pc, last, pre, calls, hist>>

NextSteps ==
    \E p \in Procs :
        \/ \E kind \in Kinds :
              \E u \in StepUpdates(kind) :
                 \E o \in Orders(DOMAIN u) :
                    UpdateLoad(p, kind, Target, u, o, FALSE)
        \/ UpdateWriteMd(p)
        \/ UpdateWriteMdFails(p)
        \/ UpdateBackup(p)
        \/ UpdateBackupFails(p)
        \/ UpdateWriteJson(p)
        \/ UpdateWriteJsonFails(p)

SpecSteps == InitSteps /\ [][NextSteps]_vars

(***************************************************************************)
(* Properties                                                              *)
(***************************************************************************)
\* C1: get_agent_scope / get_command_scope returns (Project, project path)
\* whenever a working directory is supplied and the project-level file
\* exists, whether or not the user-level file exists; (User, user path) when
\* the project file is absent or no working directory is supplied and the
\* user-level file exists; (none, none) otherwise.
C1_ScopePrecedence ==
    last.op = "scope" =>
        LET project == pre.md[<<last.kind, "project", last.name>>]
            user == pre.md[<<last.kind, "user", last.name>>]
        IN  /\ (last.wd /\ exists(project)) =>
                  /\ last.out.scope = "project"
                  /\ last.out.path = <<last.kind, "project", last.name>>
            /\ (~(last.wd /\ exists(project)) /\ exists(user)) =>
                  /\ last.out.scope = "user"
                  /\ last.out.path = <<last.kind, "user", last.name>>
            /\ (~(last.wd /\ exists(project)) /\ ~exists(user)) =>
                  /\ last.out.scope = None
                  /\ last.out.path = <<>>

\* C1 witness: both files exist, a working directory is supplied, and the
\* call answered Project
C1_Witness ==
    /\ last.op = "scope"
    /\ last.wd
    /\ exists(pre.md[<<last.kind, "project", last.name>>])
    /\ exists(pre.md[<<last.kind, "user", last.name>>])
    /\ last.out.scope = "project"

\* the layers in precedence order: Override, Project, User
Precedence == <<"custom", "project", "user">>

\* layer l is consulted by a call: the user layer always, the project layer
\* when a working directory is supplied, the override layer when
\* OPENCODE_CONFIG is set
Consulted(l, cs, wd) ==
    \/ l = "user"
    \/ l = "project" /\ wd
    \/ l = "custom" /\ cs

\* the file of layer l parses to a tree whose section is a map containing
\* the name
Holds(st, l, section_key, name) ==
    /\ st.cfg[l].k = "json"
    /\ is_object(st.cfg[l].v)
    /\ section_key \in DOMAIN st.cfg[l].v.v
    /\ is_object(st.cfg[l].v.v[section_key])
    /\ name \in DOMAIN st.cfg[l].v.v[section_key].v

\* the record of the name in layer l
EntryOf(st, l, section_key, name) == st.cfg[l].v.v[section_key].v[name]

\* the positions in Precedence of the consulted layers that hold the name
Holders(st, cs, wd, section_key, name) ==
    {i \in 1..3 : /\ Consulted(Precedence[i], cs, wd)
                  /\ Holds(st, Precedence[i], section_key, name)}

\* the least position of a non-empty set of positions
First(S) == CHOOSE i \in S : \A j \in S : i <= j

\* C2: get_json_entry_source returns the value and path of the first layer in
\* the order Override, Project, User whose section is a map containing the
\* name, whatever lower layers hold; exists=false, no path and no value when
\* no layer contains it.  get_*_sources reports that entry.
C2_JsonPrecedence ==
    (last.op = "sources" /\ last.out.res = Ok) =>
        LET layers == read_config_layers(pre, customSet, last.wd)
            src == get_json_entry_source(layers, last.kind, last.name)
            H == Holders(pre, customSet, last.wd, last.kind, last.name)
        IN  /\ H = {} => src = [exists |-> FALSE, path |-> None,
                                section |-> NoValue]
            /\ H # {} =>
                  /\ src.exists
                  /\ src.path = Precedence[First(H)]
                  /\ src.section = EntryOf(pre, Precedence[First(H)],
                                           last.kind, last.name)
            /\ last.out.json.exists = src.exists
            /\ src.exists =>
                  /\ last.out.json.path = src.path
                  /\ is_object(src.section) =>
                        last.out.json.fields = DOMAIN src.section.v

\* C2 witness: the project and the user layer both hold the name with
\* different records and the call reports the project layer's
C2_Witness ==
    /\ last.op = "sources"
    /\ last.out.res = Ok
    /\ last.wd
    /\ Holders(pre, customSet, last.wd, last.kind, last.name) = {2, 3}
    /\ EntryOf(pre, "project", last.kind, last.name)
          # EntryOf(pre, "user", last.kind, last.name)
    /\ last.out.json.path = "project"
    /\ last.out.json.fields
          = DOMAIN EntryOf(pre, "project", last.kind, last.name).v

\* the layer whose record of the name is authoritative for a call: the
\* first consulted layer in precedence order that holds it ("none" if no
\* layer does)
AuthLayer(st, cs, wd, section_key, name) ==
    IF Holders(st, cs, wd, section_key, name) = {} THEN None
    ELSE Precedence[First(Holders(st, cs, wd, section_key, name))]

\* the fields of the authoritative JSON record (none when there is no record
\* or it is not a map)
AuthFields(st, cs, wd, section_key, name) ==
    LET l == AuthLayer(st, cs, wd, section_key, name)
    IN  IF l = None THEN {}
        ELSE IF ~is_object(EntryOf(st, l, section_key, name)) THEN {}
        ELSE DOMAIN EntryOf(st, l, section_key, name).v

\* the path of the authoritative Markdown file of a call (<<>> if none)
AuthMd(st, kind, name, wd) ==
    IF wd /\ exists(st.md[<<kind, "project", name>>])
    THEN <<kind, "project", name>>
    ELSE IF exists(st.md[<<kind, "user", name>>])
    THEN <<kind, "user", name>>
    ELSE <<>>

\* the frontmatter keys of the authoritative Markdown file
AuthMdFields(st, kind, name, wd) ==
    IF AuthMd(st, kind, name, wd) = <<>> THEN {}
    ELSE DOMAIN st.md[AuthMd(st, kind, name, wd)].fm

UpdateOk == last.op = "update" /\ last.res = Ok

\* C3: a successful update_agent / update_command applies a non-null edit of
\* an ordinary field that is present in the authoritative JSON record to that
\* record in its layer file, and leaves the frontmatter value of the field
\* unchanged in every Markdown file of the entity, whether or not such a file
\* exists or has the field.
C3_JsonFieldWins ==
    UpdateOk =>
        LET l == AuthLayer(pre, customSet, last.wd, last.kind, last.name)
        IN  \A f \in DOMAIN last.updates :
               (/\ f # BodyField(last.kind)
                /\ ~is_null(last.updates[f])
                /\ f \in AuthFields(pre, customSet, last.wd, last.kind,
                                    last.name)) =>
                   /\ Holds(store, l, last.kind, last.name)
                   /\ is_object(EntryOf(store, l, last.kind, last.name))
                   /\ f \in DOMAIN EntryOf(store, l, last.kind, last.name).v
                   /\ EntryOf(store, l, last.kind, last.name).v[f]
                         = last.updates[f]
                   /\ \A sc \in Scopes :
                         LET p == <<last.kind, sc, last.name>>
                         IN  /\ exists(store.md[p]) = exists(pre.md[p])
                             /\ (f \in DOMAIN store.md[p].fm)
                                   = (f \in DOMAIN pre.md[p].fm)
                             /\ f \in DOMAIN pre.md[p].fm =>
                                   store.md[p].fm[f] = pre.md[p].fm[f]

\* C3 witness: "model" is in the JSON record and in the frontmatter of the
\* existing Markdown file; the edit changed the JSON record and the
\* frontmatter kept its old value while the file was rewritten for the body
C3_Witness ==
    /\ UpdateOk
    /\ "model" \in DOMAIN last.updates
    /\ ~is_null(last.updates["model"])
    /\ "model" \in AuthFields(pre, customSet, last.wd, last.kind, last.name)
    /\ "model" \in AuthMdFields(pre, last.kind, last.name, last.wd)
    /\ LET l == AuthLayer(pre, customSet, last.wd, last.kind, last.name)
           p == AuthMd(pre, last.kind, last.name, last.wd)
       IN  /\ EntryOf(store, l, last.kind, last.name).v["model"]
                 # EntryOf(pre, l, last.kind, last.name).v["model"]
           /\ store.md[p].fm["model"] = Str("v1")
           /\ store.md[p] # pre.md[p]

\* the entity has no JSON fields in any layer file
NoJsonFields(st, section_key, name) ==
    \A l \in Layers :
        Holds(st, l, section_key, name) =>
            \/ ~is_object(EntryOf(st, l, section_key, name))
            \/ EntryOf(st, l, section_key, name) = EmptyObj

\* C4: when the entity has a Markdown file and no JSON fields in any layer,
\* update_agent / update_command writes no JSON layer file and no JSON backup
\* file, and a successful call puts every edit into the Markdown record:
\* non-null ordinary edits into the frontmatter, a non-null body edit into
\* the body, null edits out of the frontmatter.
C4_MarkdownOnlyUpdate ==
    (/\ last.op = "update"
     /\ \E sc \in Scopes : exists(pre.md[<<last.kind, sc, last.name>>])
     /\ NoJsonFields(pre, last.kind, last.name)) =>
        /\ store.cfg = pre.cfg
        /\ store.bak = pre.bak
        /\ (last.res = Ok
            /\ AuthMd(pre, last.kind, last.name, last.wd) # <<>>) =>
              LET p == AuthMd(pre, last.kind, last.name, last.wd)
              IN  /\ exists(store.md[p])
                  /\ \A f \in DOMAIN last.updates :
                        IF is_null(last.updates[f])
                        THEN f \notin DOMAIN store.md[p].fm
                        ELSE IF f = BodyField(last.kind)
                        THEN store.md[p].body = last.updates[f].v
                        ELSE /\ f \in DOMAIN store.md[p].fm
                             /\ store.md[p].fm[f] = last.updates[f]

\* C4 witness: a Markdown-only entity, next to layer files that exist, took
\* an ordinary edit of a field new to its frontmatter and a body edit
C4_Witness ==
    /\ UpdateOk
    /\ AuthMd(pre, last.kind, last.name, last.wd) # <<>>
    /\ NoJsonFields(pre, last.kind, last.name)
    /\ exists(pre.cfg["user"])
    /\ DOMAIN last.updates = {"model", BodyField(last.kind)}
    /\ \A f \in DOMAIN last.updates : ~is_null(last.updates[f])
    /\ "model" \notin AuthMdFields(pre, last.kind, last.name, last.wd)
    /\ store.md # pre.md

\* the name is built in: no Markdown file at either scope and no JSON entry
\* in any layer file
Builtin(st, kind, name) ==
    /\ \A sc \in Scopes : ~exists(st.md[<<kind, sc, name>>])
    /\ \A l \in Layers : ~Holds(st, l, kind, name)

\* the edits of the last update call that are not null
NonNull(updates) == {f \in DOMAIN updates : ~is_null(updates[f])}

\* C5 as stated: a successful update (with at least one edit) of a built-in
\* name creates a Markdown file at the User-scope path whose frontmatter
\* holds exactly the non-body updated fields and whose body is the updated
\* body-field value, and writes no JSON layer file.
C5_Original ==
    (UpdateOk /\ Builtin(pre, last.kind, last.name)
     /\ DOMAIN last.updates # {}) =>
        LET p == <<last.kind, "user", last.name>>
            body_field == BodyField(last.kind)
        IN  /\ exists(store.md[p])
            /\ DOMAIN store.md[p].fm = DOMAIN last.updates \ {body_field}
            /\ \A f \in DOMAIN last.updates \ {body_field} :
                  store.md[p].fm[f] = last.updates[f]
            /\ body_field \in DOMAIN last.updates =>
                  store.md[p].body = last.updates[body_field].v
            /\ store.cfg = pre.cfg

\* C5 amended: a successful update of a built-in name with at least one
\* non-null edit creates a Markdown file at the User-scope path (also when a
\* working directory is supplied) whose frontmatter holds exactly the
\* non-null non-body edits and whose body is the value of a non-null body
\* edit (empty without one); with no non-null edit no file is created; no
\* JSON layer file is written in either case.
C5_BuiltinMaterialization ==
    (UpdateOk /\ Builtin(pre, last.kind, last.name)) =>
        LET p == <<last.kind, "user", last.name>>
            body_field == BodyField(last.kind)
            kept == NonNull(last.updates) \ {body_field}
        IN  /\ store.cfg = pre.cfg
            /\ store.bak = pre.bak
            /\ ~exists(store.md[<<last.kind, "project", last.name>>])
            /\ NonNull(last.updates) = {} => ~exists(store.md[p])
            /\ NonNull(last.updates) # {} =>
                  /\ exists(store.md[p])
                  /\ DOMAIN store.md[p].fm = kept
                  /\ \A f \in kept : store.md[p].fm[f] = last.updates[f]
                  /\ store.md[p].body =
                        IF body_field \in NonNull(last.updates)
                        THEN last.updates[body_field].v ELSE ""

\* C5 witness: a built-in name, updated with a working directory supplied
\* and a project layer file present, got a User-scope file with the model
\* field and the body
C5_Witness ==
    /\ UpdateOk
    /\ Builtin(pre, last.kind, last.name)
    /\ last.wd
    /\ exists(pre.cfg["project"])
    /\ NonNull(last.updates) = {"model", BodyField(last.kind)}
    /\ store.md[<<last.kind, "user", last.name>>]
          = MdFile(Map1("model", Str("v2")), "v2")

\* C6: a successful update_agent / update_command with a null edit of a field
\* that is present in the frontmatter of the existing Markdown file and in
\* the authoritative JSON record removes it from both: the rewritten file has
\* no such key and the layer's record of the entity has no such key.
C6_NullRemovesFromBoth ==
    UpdateOk =>
        LET l == AuthLayer(pre, customSet, last.wd, last.kind, last.name)
            p == AuthMd(pre, last.kind, last.name, last.wd)
        IN  \A f \in DOMAIN last.updates :
               (/\ is_null(last.updates[f])
                /\ f \in AuthMdFields(pre, last.kind, last.name, last.wd)
                /\ f \in AuthFields(pre, customSet, last.wd, last.kind,
                                    last.name)) =>
                   /\ exists(store.md[p])
                   /\ f \notin DOMAIN store.md[p].fm
                   /\ Holds(store, l, last.kind, last.name)
                   /\ is_object(EntryOf(store, l, last.kind, last.name))
                   /\ f \notin DOMAIN EntryOf(store, l, last.kind,
                                              last.name).v

\* C6 witness: "model" was in both stores, its edit was null, and both files
\* were rewritten
C6_Witness ==
    /\ UpdateOk
    /\ "model" \in DOMAIN last.updates
    /\ is_null(last.updates["model"])
    /\ "model" \in AuthMdFields(pre, last.kind, last.name, last.wd)
    /\ "model" \in AuthFields(pre, customSet, last.wd, last.kind, last.name)
    /\ store.md # pre.md
    /\ store.cfg # pre.cfg

\* C7: an update_agent / update_command call whose edits are all null and
\* name only fields absent from the Markdown frontmatter and from the JSON
\* record writes nothing: no Markdown file, no JSON layer file, no backup,
\* and no new Markdown file for a built-in entity.
C7_NullOfAbsentWritesNothing ==
    (/\ last.op = "update"
     /\ \A f \in DOMAIN last.updates :
           /\ is_null(last.updates[f])
           /\ f \notin AuthMdFields(pre, last.kind, last.name, last.wd)
           /\ f \notin AuthFields(pre, customSet, last.wd, last.kind,
                                  last.name)) =>
        store = pre

\* C7 witness: a successful all-null update of a built-in entity left the
\* store as it was
C7_Witness ==
    /\ UpdateOk
    /\ Builtin(pre, last.kind, last.name)
    /\ DOMAIN last.updates = {"model", BodyField(last.kind)}
    /\ NonNull(last.updates) = {}
    /\ store = pre

C9_SingleBackupGeneration ==
    \A l \in Layers :
        /\ exists(store.bak[l]) <=> hist[l].found
        /\ hist[l].found => store.bak[l] = hist[l].before

\* C9 witness: a path was written at least three times; the backup holds the
\* value written by the call before the last, not the first content
C9_Witness ==
    \E l \in Layers :
        /\ hist[l].found
        /\ store.bak[l].k = "json"
        /\ store.bak[l] # store.cfg[l]
        /\ calls = 3
        /\ \E l2 \in Layers : l2 # l /\ ~exists(store.bak[l2])

\* the parsed tree of a layer file ({} for an absent or blank file)
TreeOf(f) == IF f.k = "json" THEN f.v ELSE EmptyObj

\* the keys of a value (none for a non-map)
Keys(j) == IF is_object(j) THEN DOMAIN j.v ELSE {}

\* C10: every JSON write of update_agent, update_command, delete_agent
\* (the disabling write included) and delete_command for name N under section
\* S changes only tree[S][N] of the written layer: every other name under S
\* and every other top-level key has the same value in the file afterwards.
C10_SiblingsPreserved ==
    (pc = "returned" /\ last.op \in {"update", "delete"}) =>
        \A l \in Layers :
            store.cfg[l] # pre.cfg[l] =>
                LET before == TreeOf(pre.cfg[l])
                    after == TreeOf(store.cfg[l])
                    S == last.kind
                IN  /\ store.cfg[l].k = "json"
                    /\ is_object(after)
                    /\ \A k \in (Keys(before) \cup Keys(after)) \ {S} :
                          /\ k \in Keys(before)
                          /\ k \in Keys(after)
                          /\ after.v[k] = before.v[k]
                    /\ \A n \in (Keys(get(before, S)) \cup Keys(get(after, S)))
                                \ {last.name} :
                          /\ n \in Keys(get(before, S))
                          /\ n \in Keys(get(after, S))
                          /\ get(after, S).v[n] = get(before, S).v[n]

\* C10 witness: a write changed the entry of the target in a layer that
\* holds a sibling entry, the other section and another top-level key
C10_Witness ==
    /\ pc = "returned"
    /\ last.op \in {"update", "delete"}
    /\ \E l \in Layers :
          /\ store.cfg[l] # pre.cfg[l]
          /\ Keys(TreeOf(pre.cfg[l])) = {"theme", "agent", "command"}
          /\ Sibling \in Keys(get(TreeOf(store.cfg[l]), last.kind))
          /\ Keys(TreeOf(store.cfg[l])) = {"theme", "agent", "command"}

\* every layer file a call consults parses
LayersLoad(st, cs, wd) ==
    \A l \in Layers : Consulted(l, cs, wd) => st.cfg[l].k # "bad"

DeleteOk == last.op = "delete" /\ last.res = Ok

\* C11: a successful delete_agent / delete_command removes the Project-scope
\* Markdown file (of the working directory supplied) and the User-scope
\* Markdown file, both when both exist, and removes the entry only from the
\* highest-precedence layer that contains it: every other layer file is
\* unchanged, and a following get_*_sources call reports the entry of the
\* next lower layer that holds the name (none when there is no such layer).
C11_DeleteHighestOnly ==
    DeleteOk =>
        LET H == Holders(pre, customSet, last.wd, last.kind, last.name)
            after == get_sources(store, customSet, last.kind, last.name,
                                 last.wd)
        IN  /\ last.wd => ~exists(store.md[<<last.kind, "project", last.name>>])
            /\ ~exists(store.md[<<last.kind, "user", last.name>>])
            /\ H # {} =>
                  LET top == Precedence[First(H)]
                      rest == H \ {First(H)}
                  IN  /\ ~Holds(store, top, last.kind, last.name)
                      /\ \A l \in Layers \ {top} : store.cfg[l] = pre.cfg[l]
                      /\ Holders(store, customSet, last.wd, last.kind,
                                 last.name) = rest
                      /\ after.res = Ok
                      /\ after.json.exists = (rest # {})
                      /\ rest # {} =>
                            /\ after.json.path = Precedence[First(rest)]
                            /\ EntryOf(store, Precedence[First(rest)],
                                       last.kind, last.name)
                                  = EntryOf(pre, Precedence[First(rest)],
                                            last.kind, last.name)
                            /\ after.json.fields =
                                  Keys(EntryOf(pre, Precedence[First(rest)],
                                               last.kind, last.name))

\* C11 witness: both Markdown files existed and the override, project and
\* user layers all held the name; the override entry is gone and the
\* following read reports the project layer's entry
C11_Witness ==
    /\ DeleteOk
    /\ last.wd
    /\ exists(pre.md[<<last.kind, "project", last.name>>])
    /\ exists(pre.md[<<last.kind, "user", last.name>>])
    /\ Holders(pre, customSet, last.wd, last.kind, last.name) = {1, 2, 3}
    /\ Holders(store, customSet, last.wd, last.kind, last.name) = {2, 3}
    /\ get_sources(store, customSet, last.kind, last.name, last.wd).json.path
          = "project"
    /\ store.md[<<last.kind, "project", last.name>>] = NoMd
    /\ store.md[<<last.kind, "user", last.name>>] = NoMd

\* the name has no Markdown file at either scope and no entry in any layer
\* the call consults, and the layers load
Unknown(st, cs, kind, name, wd) ==
    /\ \A sc \in Scopes : ~exists(st.md[<<kind, sc, name>>])
    /\ Holders(st, cs, wd, kind, name) = {}
    /\ LayersLoad(st, cs, wd)

\* C12: delete_command on a name that has no Markdown file at either scope
\* and no JSON entry in any layer fails with the not-found error and leaves
\* every Markdown file, layer file, backup and referenced file unchanged.
C12_DeleteCommandNotFound ==
    /\ last.op = "delete"
    /\ last.kind = "command"
    /\ Unknown(pre, customSet, "command", last.name, last.wd)
    => /\ last.res = "NotFound"
       /\ store = pre

\* C12 witness: a not-found delete_command over layer files that exist and
\* hold another command
C12_Witness ==
    /\ last.op = "delete"
    /\ last.kind = "command"
    /\ last.res = "NotFound"
    /\ Unknown(pre, customSet, "command", last.name, last.wd)
    /\ Holds(pre, "user", "command", Sibling)
    /\ store = pre

\* the layer that receives the disable marker
DisableLayer(cs, wd) ==
    IF cs THEN "custom" ELSE IF wd THEN "project" ELSE "user"

\* C13: delete_agent on a name that has no Markdown file at either scope and
\* no JSON entry in any layer succeeds and sets tree["agent"][name] to
\* exactly {"disable": true} in the override layer if one is configured,
\* else in the project layer if a working directory is supplied, else in
\* the user layer; the "agent" section is created when absent and its other
\* entries stay; no other layer file and no Markdown file is written.
C13_DeleteBuiltinAgentDisables ==
    /\ last.op = "delete"
    /\ last.kind = "agent"
    /\ Unknown(pre, customSet, "agent", last.name, last.wd)
    => LET L == DisableLayer(customSet, last.wd)
       IN  /\ last.res = Ok
           /\ store.cfg[L].k = "json"
           /\ is_object(store.cfg[L].v)
           /\ Holds(store, L, "agent", last.name)
           /\ EntryOf(store, L, "agent", last.name)
                 = Obj(Map1("disable", True))
           /\ \A n \in Names \ {last.name} :
                 /\ Holds(store, L, "agent", n) = Holds(pre, L, "agent", n)
                 /\ Holds(pre, L, "agent", n) =>
                       EntryOf(store, L, "agent", n)
                          = EntryOf(pre, L, "agent", n)
           /\ \A l \in Layers \ {L} :
                 /\ store.cfg[l] = pre.cfg[l]
                 /\ store.bak[l] = pre.bak[l]
           /\ store.md = pre.md
           /\ store.prompt = pre.prompt

\* C13 witness: with a working directory and no override, the marker lands
\* in a project layer file that did not exist, while the user layer file
\* exists and is left alone
C13_Witness ==
    /\ last.op = "delete"
    /\ last.kind = "agent"
    /\ last.res = Ok
    /\ last.wd
    /\ ~customSet
    /\ Unknown(pre, customSet, "agent", last.name, last.wd)
    /\ pre.cfg["project"] = NoFile
    /\ exists(pre.cfg["user"])
    /\ EntryOf(store, "project", "agent", last.name)
          = Obj(Map1("disable", True))
    /\ store.cfg["user"] = pre.cfg["user"]

\* C14: deleting an entity that exists only as a JSON entry in the user
\* layer (no Markdown file, no entry in another layer) rewrites the user
\* layer file so that the key is gone while the other entries of the section
\* stay, and leaves in the user layer's backup the content the file had
\* before the call.
C14_DeleteUserJsonEntry ==
    /\ last.op = "delete"
    /\ \A sc \in Scopes : ~exists(pre.md[<<last.kind, sc, last.name>>])
    /\ \A l \in Layers : Holds(pre, l, last.kind, last.name) <=> l = "user"
    /\ LayersLoad(pre, customSet, last.wd)
    => /\ last.res = Ok
       /\ store.cfg["user"].k = "json"
       /\ ~Holds(store, "user", last.kind, last.name)
       /\ store.cfg["user"]
             = JsonFile(remove_entry(pre.cfg["user"].v, last.kind, last.name))
       /\ \A n \in Names \ {last.name} :
             Holds(pre, "user", last.kind, n) =>
                /\ Holds(store, "user", last.kind, n)
                /\ EntryOf(store, "user", last.kind, n)
                      = EntryOf(pre, "user", last.kind, n)
       /\ store.bak["user"] = pre.cfg["user"]
       /\ \A l \in Layers \ {"user"} :
             /\ store.cfg[l] = pre.cfg[l]
             /\ store.bak[l] = pre.bak[l]
       /\ store.md = pre.md

\* C14 witness: the user layer held the name with fields; after the delete
\* the file no longer holds it and the backup is the previous file
C14_Witness ==
    /\ last.op = "delete"
    /\ last.res = Ok
    /\ \A sc \in Scopes : ~exists(pre.md[<<last.kind, sc, last.name>>])
    /\ \A l \in Layers : Holds(pre, l, last.kind, last.name) <=> l = "user"
    /\ "model" \in Keys(EntryOf(pre, "user", last.kind, last.name))
    /\ ~Holds(store, "user", last.kind, last.name)
    /\ store.bak["user"] = pre.cfg["user"]
    /\ store.cfg["user"] # pre.cfg["user"]

\* the name is already defined where a create call looks: the Project-scope
\* Markdown file of the working directory supplied, the User-scope Markdown
\* file, or an entry in a layer the call loads
Defined(st, cs, kind, name, wd) ==
    \/ wd /\ exists(st.md[<<kind, "project", name>>])
    \/ exists(st.md[<<kind, "user", name>>])
    \/ Holders(st, cs, wd, kind, name) # {}

\* C15: create_agent / create_command fails with the already-exists error,
\* writing no Markdown file and no JSON file, whenever the name already has
\* a Markdown file at the Project or User scope or a JSON entry under its
\* section in the override, project or user layer.
C15_CreateExistingFails ==
    /\ last.op = "create"
    /\ Defined(pre, customSet, last.kind, last.name, last.wd)
    /\ LayersLoad(pre, customSet, last.wd)
    => /\ last.res = "AlreadyExists"
       /\ store = pre

\* C15 witness: the name is defined only by an entry of the user layer,
\* under an override layer that does not hold it
C15_Witness ==
    /\ last.op = "create"
    /\ last.res = "AlreadyExists"
    /\ \A sc \in Scopes : ~exists(pre.md[<<last.kind, sc, last.name>>])
    /\ customSet
    /\ Holders(pre, customSet, last.wd, last.kind, last.name) = {3}
    /\ DOMAIN last.config # {}
    /\ store = pre

\* the path a create call writes
CreateTarget(kind, name, wd, scope) ==
    IF scope = "project" /\ wd THEN <<kind, "project", name>>
    ELSE <<kind, "user", name>>

\* C16: a create call on a name that is not yet defined succeeds, also for
\* a Project request without a working directory; a successful create
\* writes exactly one Markdown file, which did not exist, and no JSON layer
\* file: at the Project-scope path exactly when the requested scope is
\* Project and a working directory is supplied, otherwise at the User-scope
\* path.
C16_CreateWritesOneMarkdown ==
    last.op = "create" =>
        LET p == CreateTarget(last.kind, last.name, last.wd, last.scope)
        IN  /\ /\ ~Defined(pre, customSet, last.kind, last.name, last.wd)
               /\ LayersLoad(pre, customSet, last.wd)
               => last.res = Ok
            /\ last.res = Ok =>
                  /\ ~exists(pre.md[p])
                  /\ exists(store.md[p])
                  /\ \A q \in MdPaths \ {p} : store.md[q] = pre.md[q]
                  /\ store.cfg = pre.cfg
                  /\ store.bak = pre.bak
                  /\ store.prompt = pre.prompt

\* C16 witness: a Project request without a working directory created the
\* User-scope file, the Project-scope path staying empty
C16_Witness ==
    /\ last.op = "create"
    /\ last.res = Ok
    /\ last.scope = "project"
    /\ ~last.wd
    /\ pre.md[<<last.kind, "user", last.name>>] = NoMd
    /\ exists(store.md[<<last.kind, "user", last.name>>])
    /\ store.md[<<last.kind, "project", last.name>>] = NoMd

\* the body-field value of the name's record in layer l (NoValue when the
\* layer has no record of the name, or the record has no body field)
BodyOf(st, l, kind, name) ==
    IF /\ Holds(st, l, kind, name)
       /\ BodyField(kind) \in Keys(EntryOf(st, l, kind, name))
    THEN EntryOf(st, l, kind, name).v[BodyField(kind)]
    ELSE NoValue

\* the last call is a successful update with a non-null body edit
BodyEdit == UpdateOk /\ BodyField(last.kind) \in NonNull(last.updates)

\* C17: a successful update with a non-null body edit, on an entity whose
\* Markdown record exists or is being materialized (no Markdown file and no
\* JSON fields), makes that text the body of the Markdown file and leaves
\* the body value of the JSON record in every layer as it was, also when
\* the record already had one; when the body is the only edit no layer file
\* and no backup is written.
C17_BodyEditGoesToMarkdown ==
    /\ BodyEdit
    /\ \/ AuthMd(pre, last.kind, last.name, last.wd) # <<>>
       \/ AuthFields(pre, customSet, last.wd, last.kind, last.name) = {}
    => LET md == AuthMd(pre, last.kind, last.name, last.wd)
           p == IF md # <<>> THEN md ELSE <<last.kind, "user", last.name>>
       IN  /\ exists(store.md[p])
           /\ store.md[p].body = last.updates[BodyField(last.kind)].v
           /\ \A l \in Layers :
                 BodyOf(store, l, last.kind, last.name)
                    = BodyOf(pre, l, last.kind, last.name)
           /\ store.prompt = pre.prompt
           /\ DOMAIN last.updates = {BodyField(last.kind)} =>
                 /\ store.cfg = pre.cfg
                 /\ store.bak = pre.bak

\* C17 witness: the Markdown file exists and the authoritative JSON record
\* has an inline body; an update of body and model changed the Markdown
\* body and the JSON model, the JSON body staying "v1"
C17_Witness ==
    /\ BodyEdit
    /\ AuthMd(pre, last.kind, last.name, last.wd) # <<>>
    /\ DOMAIN last.updates = {"model", BodyField(last.kind)}
    /\ LET l == AuthLayer(pre, customSet, last.wd, last.kind, last.name)
       IN  /\ l # None
           /\ BodyOf(pre, l, last.kind, last.name) = Str("v1")
           /\ BodyOf(store, l, last.kind, last.name) = Str("v1")
           /\ store.cfg[l] # pre.cfg[l]
    /\ pre.md[AuthMd(pre, last.kind, last.name, last.wd)].body # "v2"
    /\ store.md[AuthMd(pre, last.kind, last.name, last.wd)].body = "v2"

\* the authoritative JSON record's body value when it is a string matching
\* the reference pattern, None otherwise
AuthRef(st, cs, kind, name, wd) ==
    LET l == AuthLayer(st, cs, wd, kind, name)
    IN  IF l = None THEN None
        ELSE IF BodyOf(st, l, kind, name).t # "str" THEN None
        ELSE IF ~is_prompt_file_reference(BodyOf(st, l, kind, name).v)
        THEN None
        ELSE BodyOf(st, l, kind, name).v

\* C18: for an entity with no Markdown record whose JSON body value is a
\* reference {file:<target>} with a non-empty target, a successful update
\* with a non-null body edit makes that text the content of the referenced
\* file and leaves the JSON body value and every Markdown path unchanged;
\* when the body is the only edit no layer file and no backup is written.
C18_BodyEditGoesToReferencedFile ==
    /\ BodyEdit
    /\ AuthMd(pre, last.kind, last.name, last.wd) = <<>>
    /\ AuthRef(pre, customSet, last.kind, last.name, last.wd) # None
    /\ resolve_prompt_file_path(
          AuthRef(pre, customSet, last.kind, last.name, last.wd)) # None
    => LET ref == AuthRef(pre, customSet, last.kind, last.name, last.wd)
           f == resolve_prompt_file_path(ref)
       IN  /\ store.prompt[f]
                 = TextFile(last.updates[BodyField(last.kind)].v)
           /\ \A g \in PromptPaths \ {f} : store.prompt[g] = pre.prompt[g]
           /\ AuthRef(store, customSet, last.kind, last.name, last.wd) = ref
           /\ \A l \in Layers :
                 BodyOf(store, l, last.kind, last.name)
                    = BodyOf(pre, l, last.kind, last.name)
           /\ store.md = pre.md
           /\ DOMAIN last.updates = {BodyField(last.kind)} =>
                 /\ store.cfg = pre.cfg
                 /\ store.bak = pre.bak

\* C18 witness: the record's body is {FILE:./p.txt}; a body-only update
\* replaced the content of cfgdir/p.txt and wrote no layer file
C18_Witness ==
    /\ BodyEdit
    /\ DOMAIN last.updates = {BodyField(last.kind)}
    /\ AuthMd(pre, last.kind, last.name, last.wd) = <<>>
    /\ AuthRef(pre, customSet, last.kind, last.name, last.wd)
          = "{FILE:./p.txt}"
    /\ pre.prompt["cfgdir/p.txt"] # TextFile("v2")
    /\ store.prompt["cfgdir/p.txt"] = TextFile("v2")
    /\ store.cfg = pre.cfg
    /\ store.bak = pre.bak

\* C19: when a non-null body edit is routed to file-reference resolution
\* (no Markdown record, the JSON body value matches the reference pattern)
\* and the reference names an empty target, the update fails with the
\* invalid-reference error and no Markdown file, layer file, referenced
\* file or backup is modified, whatever other edits the call carries.
C19_InvalidReferenceWritesNothing ==
    /\ last.op = "update"
    /\ BodyField(last.kind) \in NonNull(last.updates)
    /\ LayersLoad(pre, customSet, last.wd)
    /\ AuthMd(pre, last.kind, last.name, last.wd) = <<>>
    /\ AuthRef(pre, customSet, last.kind, last.name, last.wd) # None
    /\ resolve_prompt_file_path(
          AuthRef(pre, customSet, last.kind, last.name, last.wd)) = None
    => /\ last.res = "InvalidReference"
       /\ store = pre

\* C19 witness: the record's body is "{file: }"; an update of model and body
\* failed and the stored state is the one before the call
C19_Witness ==
    /\ last.op = "update"
    /\ last.res = "InvalidReference"
    /\ DOMAIN last.updates = {"model", BodyField(last.kind)}
    /\ NonNull(last.updates) = {"model", BodyField(last.kind)}
    /\ AuthRef(pre, customSet, last.kind, last.name, last.wd) = "{file: }"
    /\ store = pre

\* C20: get_json_write_target returns the override layer's path whenever
\* an override layer is configured, otherwise the project layer's path
\* whenever there is one (a working directory is supplied), otherwise the
\* user layer's path; the result is the same for a preferred scope of
\* Project, of User and of none.
C20_WriteTargetIgnoresPreference ==
    last.op = "target" =>
        LET layers == read_config_layers(pre, customSet, last.wd)
        IN  /\ last.out = IF layers.paths.custom # None
                          THEN layers.paths.custom
                          ELSE IF layers.paths.project # None
                          THEN layers.paths.project
                          ELSE layers.paths.user
            /\ last.out = DisableLayer(customSet, last.wd)
            /\ \A ps \in PreferredScopes :
                  get_json_write_target(layers, ps) = last.out

\* C20 witness: with a project layer, no override layer and a preference
\* for the user scope the target is the project layer's path
C20_Witness ==
    /\ last.op = "target"
    /\ last.preferred_scope = "user"
    /\ last.wd
    /\ ~customSet
    /\ exists(pre.cfg["user"])
    /\ last.out = "project"

\* C21: for every store and every map of edits, the result of update_agent /
\* update_command and the contents it leaves in the Markdown files, the layer
\* files, the backups and the referenced files are the same for every order
\* in which the edits are iterated.
C21_UpdateOrderIndependent ==
    last.op = "update" =>
        \A o \in Orders(DOMAIN last.updates) :
            LET r == update_entity(pre, customSet, last.kind, last.name,
                                   last.updates, o, last.wd)
            IN  /\ r.res = last.res
                /\ r.st = store

\* C21 witness: a call with two edits, iterated body first, that changed a
\* Markdown file and a layer file; the other order leaves the same store
C21_Witness ==
    /\ UpdateOk
    /\ last.order = <<BodyField(last.kind), "model">>
    /\ NonNull(last.updates) = {BodyField(last.kind), "model"}
    /\ store.md # pre.md
    /\ store.cfg # pre.cfg
    /\ update_entity(pre, customSet, last.kind, last.name, last.updates,
                     <<"model", BodyField(last.kind)>>, last.wd).st = store

\* C22 as stated: merge_values(X, {}) equals X for every JSON value X
C22_Original ==
    (last.op = "merge" /\ last.overlay = EmptyObj) => last.out = last.base

\* C22: merge_values(X, {}) equals X for every map X; for an X that is not
\* a map (null, string, array) the result is the empty map.
C22_MergeEmptyOverlay ==
    (last.op = "merge" /\ last.overlay = EmptyObj) =>
        last.out = IF is_object(last.base) THEN last.base ELSE EmptyObj

\* C22 witness: a map holding a map and an array is returned as it is
C22_Witness ==
    /\ last.op = "merge"
    /\ last.overlay = EmptyObj
    /\ last.base = Obj(Map2("a", Obj(Map1("x", Str("1"))),
                            "b", Arr(<<Str("1")>>)))
    /\ last.out = last.base

\* C23: merge_values of two maps is a map over exactly the union of their
\* keys; a key of only one operand has that operand's value; a key whose
\* two values are both maps has their merge (union of keys, the overlay's
\* value where it has the key, else the base's); a key with any other
\* pairing has the overlay's value as it is, arrays included; when an
\* operand is not a map the result is the overlay.
C23_MergeRightBiasedThroughMaps ==
    last.op = "merge" =>
        LET b == last.base
            o == last.overlay
            r == last.out
        IN  IF is_object(b) /\ is_object(o)
            THEN /\ is_object(r)
                 /\ DOMAIN r.v = DOMAIN b.v \cup DOMAIN o.v
                 /\ \A k \in DOMAIN b.v \ DOMAIN o.v : r.v[k] = b.v[k]
                 /\ \A k \in DOMAIN o.v \ DOMAIN b.v : r.v[k] = o.v[k]
                 /\ \A k \in DOMAIN b.v \cap DOMAIN o.v :
                       IF is_object(b.v[k]) /\ is_object(o.v[k])
                       THEN /\ is_object(r.v[k])
                            /\ DOMAIN r.v[k].v
                                  = DOMAIN b.v[k].v \cup DOMAIN o.v[k].v
                            /\ \A j \in DOMAIN r.v[k].v :
                                  r.v[k].v[j] =
                                     IF j \in DOMAIN o.v[k].v
                                     THEN o.v[k].v[j] ELSE b.v[k].v[j]
                       ELSE r.v[k] = o.v[k]
            ELSE r = o

\* C23 witness: {a:{x:1}, b:[1]} merged with {a:{y:2}, b:[2]} is
\* {a:{x:1, y:2}, b:[2]}
C23_Witness ==
    /\ last.op = "merge"
    /\ last.base = Obj(Map2("a", Obj(Map1("x", Str("1"))),
                            "b", Arr(<<Str("1")>>)))
    /\ last.overlay = Obj(Map2("a", Obj(Map1("y", Str("2"))),
                               "b", Arr(<<Str("2")>>)))
    /\ last.out = Obj(Map2("a", Obj(Map2("x", Str("1"), "y", Str("2"))),
                           "b", Arr(<<Str("2")>>)))

LoadingOps == {"sources", "create", "update", "delete"}

\* the result of the last call
LastRes == IF last.op = "sources" THEN last.out.res ELSE last.res

\* a layer file the call loads has content that fails to parse
SomeLayerBad(st, cs, wd) ==
    \E l \in Layers : Consulted(l, cs, wd) /\ st.cfg[l].k = "bad"

\* C25: a layer whose file is absent, empty or blank after comment stripping
\* loads as the empty object; when a layer file the call loads has content
\* that fails to parse, get_*_sources, create_*, update_* and delete_*
\* return an error (the parse error, or already-exists when create_* finds
\* a Markdown file first), and update_* and create_* leave every file as
\* it was.
C25_ParseFailureIsAnError ==
    last.op \in LoadingOps =>
        LET layers == read_config_layers(pre, customSet, last.wd)
        IN  /\ \A l \in Layers :
                  (Consulted(l, customSet, last.wd)
                     /\ pre.cfg[l].k \in {"absent", "blank"})
                  => LayerTree(layers, l) = EmptyObj
            /\ layers.ok = ~SomeLayerBad(pre, customSet, last.wd)
            /\ SomeLayerBad(pre, customSet, last.wd) =>
                  /\ LastRes # Ok
                  /\ LastRes \in {"ParseError", "AlreadyExists"}
                  /\ LastRes = "AlreadyExists" =>
                        /\ last.op = "create"
                        /\ AuthMd(pre, last.kind, last.name, last.wd) # <<>>
                  /\ last.op \in {"update", "create"} => store = pre

\* C25 witness: an update with a non-null edit of a name the user layer
\* holds, while the project layer file fails to parse, returned the parse
\* error and wrote nothing
C25_Witness ==
    /\ last.op = "update"
    /\ last.res = "ParseError"
    /\ NonNull(last.updates) # {}
    /\ last.wd
    /\ pre.cfg["project"].k = "bad"
    /\ Holds(pre, "user", last.kind, last.name)
    /\ store = pre

\* the ordinary fields the last update sets to a non-null value and that
\* neither the authoritative frontmatter nor the authoritative JSON record
\* had before the call
NewFields ==
    {f \in NonNull(last.updates) \ {BodyField(last.kind)} :
        /\ f \notin AuthMdFields(pre, last.kind, last.name, last.wd)
        /\ f \notin AuthFields(pre, customSet, last.wd, last.kind, last.name)}

\* a Markdown record is active for the last call: the file exists, or it is
\* being materialized because there is neither a file nor a JSON field
MdActive ==
    \/ AuthMd(pre, last.kind, last.name, last.wd) # <<>>
    \/ AuthFields(pre, customSet, last.wd, last.kind, last.name) = {}

JsonOnly ==
    /\ AuthMd(pre, last.kind, last.name, last.wd) = <<>>
    /\ AuthFields(pre, customSet, last.wd, last.kind, last.name) # {}

\* C27: update_agent / update_command on an entity that has no Markdown
\* file but a JSON record with fields changes no Markdown path, so that no
\* Markdown file exists for the name afterwards; when the call succeeds
\* every non-null edit is the value of its field in the authoritative JSON
\* record (for a body edit on a file reference: the content of the
\* referenced file) and every null edit's field is absent from it.
C27_JsonEntityGetsNoMarkdown ==
    (last.op = "update" /\ JsonOnly) =>
        LET l == AuthLayer(pre, customSet, last.wd, last.kind, last.name)
            ref == AuthRef(pre, customSet, last.kind, last.name, last.wd)
            body == BodyField(last.kind)
        IN  /\ store.md = pre.md
            /\ AuthMd(store, last.kind, last.name, last.wd) = <<>>
            /\ last.res = Ok =>
                  /\ Holds(store, l, last.kind, last.name)
                  /\ is_object(EntryOf(store, l, last.kind, last.name))
                  /\ \A f \in DOMAIN last.updates :
                        LET e == EntryOf(store, l, last.kind, last.name).v
                        IN  IF is_null(last.updates[f])
                            THEN f \notin DOMAIN e
                            ELSE IF f = body /\ ref # None
                            THEN /\ e[f] = Str(ref)
                                 /\ store.prompt[resolve_prompt_file_path(ref)]
                                       = TextFile(last.updates[f].v)
                            ELSE /\ f \in DOMAIN e
                                 /\ e[f] = last.updates[f]

\* C27 witness: a JSON-only record whose body is {file:p.txt}, under no
\* Markdown file; an update added a field to the record in the layer file
\* and put the new body into the referenced file, and no Markdown file
\* appeared
C27_Witness ==
    /\ UpdateOk
    /\ JsonOnly
    /\ \A sc \in Scopes : ~exists(store.md[<<last.kind, sc, last.name>>])
    /\ NonNull(last.updates) = {"model", BodyField(last.kind)}
    /\ "model" \in NewFields
    /\ AuthRef(pre, customSet, last.kind, last.name, last.wd) = "{file:p.txt}"
    /\ store.prompt["cfgdir/p.txt"] = TextFile("v2")
    /\ LET l == AuthLayer(pre, customSet, last.wd, last.kind, last.name)
       IN  EntryOf(store, l, last.kind, last.name)
              = Obj(Map2("model", Str("v2"),
                         BodyField(last.kind), Str("{file:p.txt}")))

\* no other call has started
Alone(p) == \A q \in Procs \ {p} : local[q].pc = "idle"

\* the Markdown file the call of p writes
PlannedMd(p) ==
    MdFile(cleaned_frontmatter(local[p].plan.frontmatter), local[p].plan.body)

\* a call that ran alone and without a failing step leaves the store that
\* update_agent / update_command leaves as a whole
StepsAgree ==
    \A p \in Procs :
        (Alone(p) /\ local[p].pc = "done" /\ local[p].failed_at = None) =>
            LET r == update_entity(local[p].at_load, customSet, local[p].kind,
                         local[p].name, local[p].updates,
                         CHOOSE o \in Orders(DOMAIN local[p].updates) : TRUE,
                         FALSE)
            IN  r.st = store /\ r.res = local[p].res

\* C28: in update_agent / update_command (one call running alone) the
\* Markdown write comes before the backup copy and the layer write: while
\* the Markdown write is pending no layer file or backup has changed, and
\* once the call is at the backup copy or the layer write the Markdown file
\* already has its new content; when the backup copy or the layer write
\* fails the call ends with an error, the layer file is as it was, and the
\* Markdown file keeps the new content.
C28_MarkdownFirstNoRollback ==
    \A p \in Procs :
        (Alone(p) /\ local[p].pc # "idle") =>
            LET L == local[p]
            IN  /\ L.pc = "write_md" =>
                      /\ store.cfg = L.at_load.cfg
                      /\ store.bak = L.at_load.bak
                      /\ store.md = L.at_load.md
                /\ (L.pc \in {"backup", "write_json"} /\ L.plan.md_write) =>
                      store.md[L.plan.target_path] = PlannedMd(p)
                /\ L.pc = "backup" =>
                      /\ store.cfg = L.at_load.cfg
                      /\ store.bak = L.at_load.bak
                /\ (L.pc = "done" /\ L.failed_at \in {"backup", "write_json"})
                   => /\ L.res = "IoError"
                      /\ store.cfg = L.at_load.cfg
                      /\ L.plan.md_write =>
                            store.md[L.plan.target_path] = PlannedMd(p)

\* C28 witness: the layer write failed after the Markdown file got a new
\* body; the call ended with an error, the layer file is unchanged and the
\* Markdown file holds the new body
C28_Witness ==
    \E p \in Procs :
        /\ Alone(p)
        /\ local[p].pc = "done"
        /\ local[p].failed_at = "write_json"
        /\ local[p].res = "IoError"
        /\ local[p].plan.md_write
        /\ local[p].at_load.md[local[p].plan.target_path].body = "b1"
        /\ store.md[local[p].plan.target_path].body = "v2"
        /\ store.cfg = local[p].at_load.cfg

\* both calls have ended without error, both wrote the same layer file, and
\* both loaded the layers before either wrote
Race ==
    /\ \A p \in Procs :
          /\ local[p].pc = "done"
          /\ local[p].res = Ok
          /\ local[p].plan.json_write
          /\ local[p].writes_at_load = 0
    /\ local[1].plan.json_target_path = local[2].plan.json_target_path

\* the edits of the first writer that the last writer did not make too
OnlyFirst(f, w) ==
    IF local[f].kind = local[w].kind
    THEN DOMAIN local[f].updates \ DOMAIN local[w].updates
    ELSE DOMAIN local[f].updates

\* C29 as stated: after such a race the layer file is the last writer's
\* tree, the first writer's edits are not in it, and the backup does not
\* hold what the file held before both calls
C29_Original ==
    Race =>
        LET f == hist[1]
            w == hist[2]
            path == local[w].plan.json_target_path
            before == local[f].at_load
        IN  /\ store.cfg[path] = JsonFile(local[w].plan.config)
            /\ \A x \in OnlyFirst(f, w) :
                  get(get(get(TreeOf(store.cfg[path]), local[f].kind),
                          local[f].name), x)
                     = get(get(get(TreeOf(before.cfg[path]), local[f].kind),
                               local[f].name), x)
            /\ store.bak[path] # before.cfg[path]

\* C29: when two update calls that write the same layer file both load the
\* layers before either writes, the layer file ends as the tree of the last
\* writer, in which every field only the first writer edited has the value
\* it had before both calls (lost update); the backup holds the first
\* writer's tree when the last writer took its copy after the first
\* writer's write, and otherwise is what it would be without the first
\* writer: the content the file had before both calls, or the old backup
\* when there was no file.
C29_LostUpdate ==
    Race =>
        LET f == hist[1]
            w == hist[2]
            path == local[w].plan.json_target_path
            before == local[f].at_load
        IN  /\ local[w].at_load.cfg[path] = before.cfg[path]
            /\ store.cfg[path] = JsonFile(local[w].plan.config)
            /\ \A x \in OnlyFirst(f, w) :
                  get(get(get(TreeOf(store.cfg[path]), local[f].kind),
                          local[f].name), x)
                     = get(get(get(TreeOf(before.cfg[path]), local[f].kind),
                               local[f].name), x)
            /\ store.bak[path] =
                  IF local[w].writes_at_backup = 1
                  THEN JsonFile(local[f].plan.config)
                  ELSE IF exists(before.cfg[path]) THEN before.cfg[path]
                  ELSE before.bak[path]

\* C29 witness: one call set the model and the other the body of the same
\* record; both copies were taken before either write; the file has the
\* last writer's body and the old model, and the backup is the file as it
\* was before both calls
C29_Witness ==
    /\ Race
    /\ Len(hist) = 2
    /\ local[hist[1]].kind = local[hist[2]].kind
    /\ local[hist[1]].updates = Map1("model", Str("v2"))
    /\ local[hist[2]].updates = Map1(BodyField(local[hist[2]].kind), Str("v2"))
    /\ local[hist[2]].writes_at_backup = 0
    /\ LET path == local[hist[2]].plan.json_target_path
           e == get(get(TreeOf(store.cfg[path]), local[hist[1]].kind), Target)
       IN  /\ get(e, "model") = Str("v1")
           /\ get(e, BodyField(local[hist[2]].kind)) = Str("v2")
           /\ store.bak[path] = local[hist[1]].at_load.cfg[path]
           /\ exists(store.bak[path])

\* C30: a successful get_agent_sources / get_command_sources reports
\* project_md.exists and user_md.exists as the existence of the Project-scope
\* file (of the working directory supplied) and of the User-scope file, each
\* on its own; md is the Project file when that exists, otherwise the User
\* file when that exists, otherwise nothing; json.exists holds and
\* json.scope is set exactly when a loaded layer contains the name, and
\* when none does json.scope is none and json.path is the default target
\* (override layer if configured, else project layer if a working directory
\* is supplied, else user layer).
C30_SourcesReport ==
    (last.op = "sources" /\ last.out.res = Ok) =>
        LET o == last.out
            project == <<last.kind, "project", last.name>>
            user == <<last.kind, "user", last.name>>
            pe == last.wd /\ exists(pre.md[project])
            ue == exists(pre.md[user])
            H == Holders(pre, customSet, last.wd, last.kind, last.name)
        IN  /\ o.project_md.exists = pe
            /\ o.user_md.exists = ue
            /\ o.user_md.path = user
            /\ last.wd => o.project_md.path = project
            /\ o.md.exists = (pe \/ ue)
            /\ pe => (o.md.path = project /\ o.md.scope = "project")
            /\ (~pe /\ ue) => (o.md.path = user /\ o.md.scope = "user")
            /\ (~pe /\ ~ue) => o.md.scope = None
            /\ o.json.exists = (H # {})
            /\ (o.json.scope = None) = (H = {})
            /\ H = {} => o.json.path = DisableLayer(customSet, last.wd)
            /\ H # {} => o.json.path = Precedence[First(H)]

\* C30 witness: both Markdown files exist, so md is the Project file while
\* user_md.exists is reported too; no layer holds the name, so json.scope is
\* none and json.path is the override layer's path
C30_Witness ==
    /\ last.op = "sources"
    /\ last.out.res = Ok
    /\ last.wd
    /\ customSet
    /\ exists(pre.cfg["user"])
    /\ last.out.project_md.exists
    /\ last.out.user_md.exists
    /\ last.out.md.path = <<last.kind, "project", last.name>>
    /\ ~last.out.json.exists
    /\ last.out.json.scope = None
    /\ last.out.json.path = "custom"

\* C31: update_agent / update_command changes at most one Markdown path,
\* the authoritative file (the Project file when it exists, else the User
\* file), and at most one layer file and backup, those of the layer holding
\* the highest-precedence entry of the name: every other Markdown path and
\* every other layer file and backup is unchanged, and a layer that did not
\* hold the name is never written, also when an override layer is
\* configured.
C31_UpdateFrame ==
    last.op = "update" =>
        LET md == AuthMd(pre, last.kind, last.name, last.wd)
            p == IF md # <<>> THEN md ELSE <<last.kind, "user", last.name>>
            l == AuthLayer(pre, customSet, last.wd, last.kind, last.name)
        IN  /\ \A q \in MdPaths \ {p} : store.md[q] = pre.md[q]
            /\ \A k \in Layers :
                  (store.cfg[k] # pre.cfg[k] \/ store.bak[k] # pre.bak[k])
                  => /\ k = l
                     /\ Holds(pre, k, last.kind, last.name)

\* C31 witness: both Markdown files exist and only the user layer holds the
\* name, under a configured override layer; the update changed the Project
\* file and the user layer file, and left the User file and the override
\* layer file as they were
C31_Witness ==
    /\ UpdateOk
    /\ last.wd
    /\ customSet
    /\ exists(pre.md[<<last.kind, "user", last.name>>])
    /\ Holders(pre, customSet, last.wd, last.kind, last.name) = {3}
    /\ store.md[<<last.kind, "project", last.name>>]
          # pre.md[<<last.kind, "project", last.name>>]
    /\ store.md[<<last.kind, "user", last.name>>]
          = pre.md[<<last.kind, "user", last.name>>]
    /\ store.cfg["user"] # pre.cfg["user"]
    /\ store.cfg["custom"] = pre.cfg["custom"]
    /\ store.cfg["project"] = pre.cfg["project"]

\* the last update call made once more on the store it left
UpdateAgain ==
    update_entity(store, customSet, last.kind, last.name, last.updates,
                  last.order, last.wd)

\* C32: making the same update_agent / update_command call a second time,
\* on the store the first call left, gives the same result and leaves the
\* Markdown files, the layer files and the referenced files as the first
\* call left them (the backups may differ).
C32_UpdateIdempotent ==
    last.op = "update" =>
        /\ UpdateAgain.res = last.res
        /\ UpdateAgain.st.md = store.md
        /\ UpdateAgain.st.cfg = store.cfg
        /\ UpdateAgain.st.prompt = store.prompt

\* C32 witness: a call that removed a field, changing a layer file, and set
\* the body, changing a Markdown file; the same call made again leaves both
\* as they are
C32_Witness ==
    /\ UpdateOk
    /\ last.updates = Map2("model", Null, BodyField(last.kind), Str("v2"))
    /\ store.md # pre.md
    /\ store.cfg # pre.cfg
    /\ UpdateAgain.res = Ok
    /\ UpdateAgain.st.md = store.md
    /\ UpdateAgain.st.cfg = store.cfg

\* the last delete_agent call made once more on the store st
DeleteAgentAgain(st) == delete_agent_fn(st, customSet, last.name, last.wd)

\* C33: delete_agent never fails with the not-found error; on a built-in
\* agent (no Markdown file, no JSON entry, layers that load) successive
\* delete_agent calls alternate: the first writes the {"disable": true}
\* entry, the second removes that entry and leaves the name built-in again,
\* the third writes the entry again; while the entry is present,
\* create_agent for the name (same working directory) fails with the
\* already-exists error and writes nothing.
C33_DeleteAgentAlternates ==
    (last.op = "delete" /\ last.kind = "agent") =>
        /\ last.res # "NotFound"
        /\ DeleteAgentAgain(store).res # "NotFound"
        /\ Unknown(pre, customSet, "agent", last.name, last.wd) =>
              LET L == DisableLayer(customSet, last.wd)
                  second == DeleteAgentAgain(store)
                  third == DeleteAgentAgain(second.st)
              IN  /\ last.res = Ok
                  /\ Holders(store, customSet, last.wd, "agent", last.name)
                        = {CHOOSE i \in 1..3 : Precedence[i] = L}
                  /\ EntryOf(store, L, "agent", last.name)
                        = Obj(Map1("disable", True))
                  /\ second.res = Ok
                  /\ Unknown(second.st, customSet, "agent", last.name, last.wd)
                  /\ second.st.cfg[L]
                        = JsonFile(remove_entry(store.cfg[L].v, "agent",
                                                last.name))
                  /\ \A k \in Layers \ {L} : second.st.cfg[k] = pre.cfg[k]
                  /\ second.st.md = pre.md
                  /\ third.res = Ok
                  /\ third.st.cfg = store.cfg
                  /\ \A c \in CreateMaps("agent"), sc \in RequestedScopes :
                        LET r == create_entity(store, customSet, "agent",
                                               last.name, c, last.wd, sc)
                        IN  r.res = "AlreadyExists" /\ r.st = store

\* C33 witness: a delete_agent on a built-in agent wrote the entry into the
\* override layer file, next to another agent; the next delete_agent takes
\* it out again
C33_Witness ==
    /\ last.op = "delete"
    /\ last.kind = "agent"
    /\ last.res = Ok
    /\ customSet
    /\ Unknown(pre, customSet, "agent", last.name, last.wd)
    /\ Holds(pre, "custom", "agent", Sibling)
    /\ EntryOf(store, "custom", "agent", last.name)
          = Obj(Map1("disable", True))
    /\ ~Holds(DeleteAgentAgain(store).st, "custom", "agent", last.name)
    /\ Holds(DeleteAgentAgain(store).st, "custom", "agent", Sibling)

\* delete_command(name, wd) repeated on st, at most fuel times, until a call
\* does not succeed: the number of successful calls, the store left, and
\* the result of the call that did not succeed ("more" when the fuel ran
\* out first)
RECURSIVE RepeatDeleteCommand(_, _, _, _, _)
RepeatDeleteCommand(st, cs, name, wd, fuel) ==
    IF fuel = 0 THEN [n |-> 0, st |-> st, res |-> "more"]
    ELSE LET r == delete_command_fn(st, cs, name, wd)
         IN  IF r.res # Ok THEN [n |-> 0, st |-> r.st, res |-> r.res]
             ELSE LET t == RepeatDeleteCommand(r.st, cs, name, wd, fuel - 1)
                  IN  [n |-> t.n + 1, st |-> t.st, res |-> t.res]

\* what repeating delete_command from the store before the recorded call
\* comes to: the not-found error within MaxRepeats calls, after one
\* successful call per layer that holds the name, or after one when only
\* Markdown files exist, or at once when there is nothing; the name then
\* has no Markdown file at the scopes and no entry in the layers the calls
\* look at, and the not-found call changes nothing
RepeatEnds ==
    LET H == Holders(pre, customSet, last.wd, "command", last.name)
        md == AuthMd(pre, "command", last.name, last.wd) # <<>>
        t == RepeatDeleteCommand(pre, customSet, last.name, last.wd,
                                 MaxRepeats)
        first == RepeatDeleteCommand(pre, customSet, last.name, last.wd, 1)
    IN  /\ first.st = store
        /\ (last.res = Ok) = (t.n >= 1)
        /\ t.res = "NotFound"
        /\ t.n = IF H # {} THEN Cardinality(H)
                 ELSE IF md THEN 1 ELSE 0
        /\ t.n <= Cardinality(Layers)
        /\ AuthMd(t.st, "command", last.name, last.wd) = <<>>
        /\ ~exists(t.st.md[<<"command", "user", last.name>>])
        /\ last.wd => ~exists(t.st.md[<<"command", "project", last.name>>])
        /\ Holders(t.st, customSet, last.wd, "command", last.name) = {}
        /\ delete_command_fn(t.st, customSet, last.name, last.wd).st = t.st

\* C34 as stated: from any store, delete_command repeated on one name (same
\* working directory, nothing in between) reaches the not-found error after
\* finitely many calls. Violated when a layer file the calls load does not
\* parse: every call then ends with the parse error and none with not-found.
C34_Original ==
    (last.op = "delete" /\ last.kind = "command") => RepeatEnds

\* C34: from any store whose layer files parse, delete_command repeated on
\* one name (same working directory, nothing in between) reaches the
\* not-found error after finitely many calls: at most one successful call
\* per JSON layer holding the name, or one when only Markdown files exist;
\* the name then has no Markdown file and no JSON entry left.
C34_RepeatedDeleteCommandEnds ==
    /\ last.op = "delete"
    /\ last.kind = "command"
    /\ LayersLoad(pre, customSet, last.wd)
    => RepeatEnds

\* C34 witness: both Markdown files exist and all three layers hold the
\* name; the third repeated call is the last that succeeds and the fourth
\* returns not-found
C34_Witness ==
    /\ last.op = "delete"
    /\ last.kind = "command"
    /\ last.res = Ok
    /\ last.wd
    /\ LayersLoad(pre, customSet, last.wd)
    /\ exists(pre.md[<<"command", "project", last.name>>])
    /\ exists(pre.md[<<"command", "user", last.name>>])
    /\ Holders(pre, customSet, last.wd, "command", last.name) = {1, 2, 3}
    /\ RepeatDeleteCommand(pre, customSet, last.name, last.wd, 3).res = "more"
    /\ RepeatDeleteCommand(pre, customSet, last.name, last.wd, 3).n = 3
    /\ RepeatDeleteCommand(pre, customSet, last.name, last.wd, MaxRepeats).res
          = "NotFound"

====
